---------------------------- MODULE Spec2Model ----------------------------
(***************************************************************************)
(* Cultural Monad generators: the response normaliser                      *)
(* (parse_llm_json_response, clean_json_response), the generation          *)
(* orchestrator (run_generation, check_api_key), the generators' main()    *)
(* entry points and the HTTP handlers of app.py.                           *)
(*                                                                         *)
(* Text is modelled as a sequence of one-character strings.  Python        *)
(* objects are tagged records: the tag t is the Python type name and the   *)
(* payload field is named after the type, so that values of different      *)
(* types are records with different domains.                               *)
(***************************************************************************)
EXTENDS Integers, Sequences, FiniteSets, TLC

VARIABLES
    content,        \* parse_llm_json_response: the content argument
    possible_keys,  \* parse_llm_json_response: the possible_keys argument
    presult,        \* parse_llm_json_response: what the call returned / raised
    ppc,            \* "start" before the call, "done" after it
    doc,            \* the JSON document the content was serialized from
    wrap,           \* how the completion presented it: plain, fenced, raw text
    fence,          \* the opening fence of the second call's content ("none" before it)
    fresult,        \* what the call on the fence-wrapped content returned / raised
    environ,        \* os.environ: LLM_PROVIDER, OPENAI_API_KEY, OPENROUTER_API_KEY
    entry,          \* entry point being executed ("idle" when none)
    pc,             \* position inside the entry point
    data,           \* the local holding generate_func's return value
    log,            \* call-count instrumentation: the calls made, in order
    ret,            \* what the entry point returned / raised / answered
    completion,     \* message.content of the completion the endpoint returned
    files,          \* the artifacts on disk
    clock,          \* datetime.now(): whole seconds read so far
    result,         \* the GenerationResult handed to the persistence functions
    gentime,        \* the clock reading at which result was generated
    saved,          \* the persistence calls made, in order
    disk,           \* the files of the working directory and of outputs/
    answer,         \* what the last listing or download request answered
    model,          \* get_completion_params: the model argument
    params,         \* what get_completion_params returned
    checked,        \* what check_api_key() returned
    client          \* what get_llm_client() did after it

vars == <<content, possible_keys, presult, ppc, doc, wrap, fence, fresult, environ, entry, pc, data, log, ret,
          completion, files, clock, result, gentime, saved, disk, answer, model, params, checked, client>>

parseVars == <<content, possible_keys, presult, ppc, doc, wrap, fence, fresult>>
runVars == <<environ, entry, pc, data, log, ret, completion, files>>
saveVars == <<clock, result, gentime, saved, disk, answer>>
cfgVars == <<model, params, checked, client>>

-----------------------------------------------------------------------------
(* Bounds of the model *)

MaxLen == 2
MaxFields == 2
MaxRaw == 3

-----------------------------------------------------------------------------
(* Generic helpers *)

Min(S) == CHOOSE x \in S : \A y \in S : x <= y
Max(S) == CHOOSE x \in S : \A y \in S : x >= y

SeqsUpTo(S, n) == UNION {[1..k -> S] : k \in 0..n}

Last(s) == s[Len(s)]
Front(s) == SubSeq(s, 1, Len(s) - 1)

-----------------------------------------------------------------------------
(* Python values *)

PyNone == [t |-> "NoneType"]
PyBool(b) == [t |-> "bool", b |-> b]
PyInt(n) == [t |-> "int", n |-> n]
PyStr(s) == [t |-> "str", s |-> s]
PyList(xs) == [t |-> "list", items |-> xs]
\* a dict keeps its pairs in insertion order; keys are unique
PyDict(ps) == [t |-> "dict", pairs |-> ps]

Pair(k, v) == [k |-> k, v |-> v]

DictKeys(d) == {d.pairs[i].k : i \in 1..Len(d.pairs)}
DictHas(d, key) == key \in DictKeys(d)
DictGet(d, key) == d.pairs[CHOOSE i \in 1..Len(d.pairs) : d.pairs[i].k = key].v

\* d[key] = val: an existing key keeps its position and takes the new value
DictSet(ps, key, val) ==
    IF \E i \in 1..Len(ps) : ps[i].k = key
    THEN [i \in 1..Len(ps) |-> IF ps[i].k = key THEN Pair(key, val) ELSE ps[i]]
    ELSE Append(ps, Pair(key, val))

\* Python truthiness of a value
Truthy(v) ==
    CASE v.t = "NoneType" -> FALSE
      [] v.t = "bool" -> v.b
      [] v.t = "int" -> v.n # 0
      [] v.t = "str" -> v.s # <<>>
      [] v.t = "list" -> v.items # <<>>
      [] v.t = "dict" -> v.pairs # <<>>
      [] OTHER -> TRUE

-----------------------------------------------------------------------------
(* Text helpers: strip, startswith, split and join on the newline *)

\* the backtick character is written as an apostrophe in this module
Backtick == "'"
NL == "\n"
Quote == "\""
Fence == <<Backtick, Backtick, Backtick>>

Whitespace == {" ", NL}

IsWs(c) == c \in Whitespace

\* the first index from i on whose character is not in cs (Len(s) + 1 if none)
RECURSIVE SkipChars(_, _, _)
SkipChars(s, i, cs) ==
    IF i > Len(s) \/ s[i] \notin cs THEN i ELSE SkipChars(s, i + 1, cs)

\* the last index up to j whose character is not in cs (0 if none)
RECURSIVE SkipCharsBack(_, _, _)
SkipCharsBack(s, j, cs) ==
    IF j < 1 \/ s[j] \notin cs THEN j ELSE SkipCharsBack(s, j - 1, cs)

\* the first index from i on whose character is in cs (Len(s) + 1 if none)
RECURSIVE FindChars(_, _, _)
FindChars(s, i, cs) ==
    IF i > Len(s) \/ s[i] \in cs THEN i ELSE FindChars(s, i + 1, cs)

Strip(s) ==
    IF SkipChars(s, 1, Whitespace) > Len(s) THEN <<>>
    ELSE SubSeq(s, SkipChars(s, 1, Whitespace), SkipCharsBack(s, Len(s), Whitespace))

StartsWith(s, p) == Len(s) >= Len(p) /\ SubSeq(s, 1, Len(p)) = p

RECURSIVE SplitLines(_)
SplitLines(s) ==
    LET nl == FindChars(s, 1, {NL})
    IN IF nl > Len(s) THEN <<s>>
       ELSE <<SubSeq(s, 1, nl - 1)>> \o SplitLines(SubSeq(s, nl + 1, Len(s)))

RECURSIVE JoinLines(_)
JoinLines(lines) ==
    IF lines = <<>> THEN <<>>
    ELSE IF Len(lines) = 1 THEN lines[1]
    ELSE lines[1] \o <<NL>> \o JoinLines(Tail(lines))


-----------------------------------------------------------------------------
(* json.dumps: default separators, insertion order, no escapes needed *)

RECURSIVE IntToChars(_)
IntToChars(n) ==
    LET d == <<"0", "1", "2", "3", "4", "5", "6", "7", "8", "9">>
    IN IF n < 10 THEN <<d[n + 1]>> ELSE IntToChars(n \div 10) \o <<d[(n % 10) + 1]>>

RECURSIVE Dumps(_)
RECURSIVE DumpsItems(_)
RECURSIVE DumpsPairs(_)

DumpsItems(xs) ==
    IF xs = <<>> THEN <<>>
    ELSE IF Len(xs) = 1 THEN Dumps(xs[1])
    ELSE Dumps(xs[1]) \o <<",", " ">> \o DumpsItems(Tail(xs))

DumpsPairs(ps) ==
    LET one == <<Quote>> \o ps[1].k \o <<Quote, ":", " ">> \o Dumps(ps[1].v)
    IN IF ps = <<>> THEN <<>>
       ELSE IF Len(ps) = 1 THEN one
       ELSE one \o <<",", " ">> \o DumpsPairs(Tail(ps))

Dumps(v) ==
    CASE v.t = "NoneType" -> <<"n", "u", "l", "l">>
      [] v.t = "bool" -> IF v.b THEN <<"t", "r", "u", "e">> ELSE <<"f", "a", "l", "s", "e">>
      [] v.t = "int" -> IntToChars(v.n)
      [] v.t = "str" -> <<Quote>> \o v.s \o <<Quote>>
      [] v.t = "list" -> <<"[">> \o DumpsItems(v.items) \o <<"]">>
      [] v.t = "dict" -> <<"{">> \o DumpsPairs(v.pairs) \o <<"}">>

-----------------------------------------------------------------------------
(* json.loads: a strict JSON scanner over the characters of the text.      *)
(* Numbers are unsigned integers, strings carry no escapes.  A scan step   *)
(* yields [ok, val, next, msg]: the value and the index after it, or the   *)
(* JSONDecodeError message and its position.                               *)

Digits == {"0", "1", "2", "3", "4", "5", "6", "7", "8", "9"}

DigitVal(c) ==
    CASE c = "0" -> 0 [] c = "1" -> 1 [] c = "2" -> 2 [] c = "3" -> 3 [] c = "4" -> 4
      [] c = "5" -> 5 [] c = "6" -> 6 [] c = "7" -> 7 [] c = "8" -> 8 [] c = "9" -> 9

RECURSIVE CharsToInt(_)
CharsToInt(s) ==
    IF Len(s) = 1 THEN DigitVal(s[1])
    ELSE 10 * CharsToInt(Front(s)) + DigitVal(Last(s))

ScanOk(v, next) == [ok |-> TRUE, val |-> v, next |-> next, msg |-> ""]
ScanErr(msg, pos) == [ok |-> FALSE, val |-> PyNone, next |-> pos, msg |-> msg]

SkipWs(s, i) == SkipChars(s, i, Whitespace)

LitAt(s, i, lit) ==
    /\ i + Len(lit) - 1 <= Len(s)
    /\ SubSeq(s, i, i + Len(lit) - 1) = lit

\* s[i-1] is the opening quote
ScanString(s, i) ==
    LET stop == FindChars(s, i, {Quote, NL})
    IN IF stop > Len(s) THEN ScanErr("Unterminated string starting at", i - 1)
       ELSE IF s[stop] = NL THEN ScanErr("Invalid control character at", stop)
       ELSE ScanOk(PyStr(SubSeq(s, i, stop - 1)), stop + 1)

ScanNumber(s, i) ==
    LET end == SkipChars(s, i, Digits)
    IN IF s[i] = "0" THEN ScanOk(PyInt(0), i + 1)
       ELSE ScanOk(PyInt(CharsToInt(SubSeq(s, i, end - 1))), end)

RECURSIVE ScanValue(_, _)
RECURSIVE ScanElements(_, _, _)
RECURSIVE ScanMembers(_, _, _)

\* i is the index of the next element of the array
ScanElements(s, i, acc) ==
    LET r == ScanValue(s, i)
        k == SkipWs(s, r.next)
        acc2 == Append(acc, r.val)
    IN IF ~r.ok THEN r
       ELSE IF k > Len(s) THEN ScanErr("Expecting ',' delimiter", k)
       ELSE IF s[k] = "]" THEN ScanOk(PyList(acc2), k + 1)
       ELSE IF s[k] = "," THEN ScanElements(s, SkipWs(s, k + 1), acc2)
       ELSE ScanErr("Expecting ',' delimiter", k)

\* i is the index where the next property name has to start
ScanMembers(s, i, acc) ==
    LET key == ScanString(s, i + 1)
        c == SkipWs(s, key.next)
        r == ScanValue(s, SkipWs(s, c + 1))
        k == SkipWs(s, r.next)
        acc2 == DictSet(acc, key.val.s, r.val)
    IN IF i > Len(s) \/ s[i] # Quote
       THEN ScanErr("Expecting property name enclosed in double quotes", i)
       ELSE IF ~key.ok THEN key
       ELSE IF c > Len(s) \/ s[c] # ":" THEN ScanErr("Expecting ':' delimiter", c)
       ELSE IF ~r.ok THEN r
       ELSE IF k > Len(s) THEN ScanErr("Expecting ',' delimiter", k)
       ELSE IF s[k] = "}" THEN ScanOk(PyDict(acc2), k + 1)
       ELSE IF s[k] = "," THEN ScanMembers(s, SkipWs(s, k + 1), acc2)
       ELSE ScanErr("Expecting ',' delimiter", k)

ScanValue(s, i) ==
    IF i > Len(s) THEN ScanErr("Expecting value", i)
    ELSE CASE s[i] = Quote -> ScanString(s, i + 1)
           [] s[i] = "[" ->
                LET j == SkipWs(s, i + 1)
                IN IF j <= Len(s) /\ s[j] = "]" THEN ScanOk(PyList(<<>>), j + 1)
                   ELSE ScanElements(s, j, <<>>)
           [] s[i] = "{" ->
                LET j == SkipWs(s, i + 1)
                IN IF j <= Len(s) /\ s[j] = "}" THEN ScanOk(PyDict(<<>>), j + 1)
                   ELSE ScanMembers(s, j, <<>>)
           [] LitAt(s, i, <<"n", "u", "l", "l">>) -> ScanOk(PyNone, i + 4)
           [] LitAt(s, i, <<"t", "r", "u", "e">>) -> ScanOk(PyBool(TRUE), i + 4)
           [] LitAt(s, i, <<"f", "a", "l", "s", "e">>) -> ScanOk(PyBool(FALSE), i + 5)
           [] s[i] \in Digits -> ScanNumber(s, i)
           [] OTHER -> ScanErr("Expecting value", i)

\* json.loads(s): leading whitespace, one value, trailing whitespace, end
Loads(s) ==
    LET r == ScanValue(s, SkipWs(s, 1))
        end == SkipWs(s, r.next)
    IN IF ~r.ok THEN r
       ELSE IF end <= Len(s) THEN ScanErr("Extra data", end)
       ELSE r


-----------------------------------------------------------------------------
(* llm_client.clean_json_response *)

\* content.strip() on None raises AttributeError
clean_json_response_KeepClosing(c) ==
    IF c.t # "str" THEN [raised |-> "AttributeError", s |-> <<>>]
    ELSE
      LET stripped == Strip(c.s)
          lines0 == SplitLines(stripped)
          lines1 == IF StartsWith(lines0[1], Fence) THEN Tail(lines0) ELSE lines0
          lines2 == lines1
      IN IF StartsWith(stripped, Fence)
         THEN [raised |-> "none", s |-> Strip(JoinLines(lines2))]
         ELSE [raised |-> "none", s |-> stripped]

clean_json_response_ExactClose(c) ==
    IF c.t # "str" THEN [raised |-> "AttributeError", s |-> <<>>]
    ELSE
      LET stripped == Strip(c.s)
          lines0 == SplitLines(stripped)
          lines1 == IF StartsWith(lines0[1], Fence) THEN Tail(lines0) ELSE lines0
          lines2 == IF lines1 # <<>> /\ Last(lines1) = Fence
                    THEN Front(lines1) ELSE lines1
      IN IF StartsWith(stripped, Fence)
         THEN [raised |-> "none", s |-> Strip(JoinLines(lines2))]
         ELSE [raised |-> "none", s |-> stripped]

clean_json_response(c) ==
    IF c.t # "str" THEN [raised |-> "AttributeError", s |-> <<>>]
    ELSE
      LET stripped == Strip(c.s)
          lines0 == SplitLines(stripped)
          lines1 == IF StartsWith(lines0[1], Fence) THEN Tail(lines0) ELSE lines0
          lines2 == IF lines1 # <<>> /\ Strip(Last(lines1)) = Fence
                    THEN Front(lines1) ELSE lines1
      IN IF StartsWith(stripped, Fence)
         THEN [raised |-> "none", s |-> Strip(JoinLines(lines2))]
         ELSE [raised |-> "none", s |-> stripped]

-----------------------------------------------------------------------------
(* utils.parse_llm_json_response *)

\* the keys of the results and of the completions, as text
Key ==
    [generated_at |->
        <<"g", "e", "n", "e", "r", "a", "t", "e", "d", "_", "a", "t">>,
     model_used |->
        <<"m", "o", "d", "e", "l", "_", "u", "s", "e", "d">>,
     demographics |->
        <<"d", "e", "m", "o", "g", "r", "a", "p", "h", "i", "c", "s">>,
     profiles |->
        <<"p", "r", "o", "f", "i", "l", "e", "s">>,
     personas |->
        <<"p", "e", "r", "s", "o", "n", "a", "s">>,
     tribes |->
        <<"t", "r", "i", "b", "e", "s">>,
     wizards |->
        <<"w", "i", "z", "a", "r", "d", "s">>,
     experiences |->
        <<"e", "x", "p", "e", "r", "i", "e", "n", "c", "e", "s">>,
     aphorisms |->
        <<"a", "p", "h", "o", "r", "i", "s", "m", "s">>,
     takes |->
        <<"t", "a", "k", "e", "s">>,
     tweets |->
        <<"t", "w", "e", "e", "t", "s">>,
     reader_demographics |->
        <<"r", "e", "a", "d", "e", "r", "_", "d", "e", "m", "o", "g", "r",
        "a", "p", "h", "i", "c", "s">>,
     styles |->
        <<"s", "t", "y", "l", "e", "s">>,
     writing_styles |->
        <<"w", "r", "i", "t", "i", "n", "g", "_", "s", "t", "y", "l", "e",
        "s">>,
     num_demographics |->
        <<"n", "u", "m", "_", "d", "e", "m", "o", "g", "r", "a", "p", "h",
        "i", "c", "s">>,
     num_aphorisms |->
        <<"n", "u", "m", "_", "a", "p", "h", "o", "r", "i", "s", "m",
        "s">>,
     num_styles |->
        <<"n", "u", "m", "_", "s", "t", "y", "l", "e", "s">>,
     algorithm_source |->
        <<"a", "l", "g", "o", "r", "i", "t", "h", "m", "_", "s", "o", "u",
        "r", "c", "e">>,
     theoretical_framework |->
        <<"t", "h", "e", "o", "r", "e", "t", "i", "c", "a", "l", "_", "f",
        "r", "a", "m", "e", "w", "o", "r", "k">>,
     target_length |->
        <<"t", "a", "r", "g", "e", "t", "_", "l", "e", "n", "g", "t",
        "h">>,
     target_words |->
        <<"t", "a", "r", "g", "e", "t", "_", "w", "o", "r", "d", "s">>,
     used_demographic |->
        <<"u", "s", "e", "d", "_", "d", "e", "m", "o", "g", "r", "a", "p",
        "h", "i", "c">>,
     used_style |->
        <<"u", "s", "e", "d", "_", "s", "t", "y", "l", "e">>,
     newsletter_topic |->
        <<"n", "e", "w", "s", "l", "e", "t", "t", "e", "r", "_", "t", "o",
        "p", "i", "c">>,
     target_demographic |->
        <<"t", "a", "r", "g", "e", "t", "_", "d", "e", "m", "o", "g", "r",
        "a", "p", "h", "i", "c">>,
     writing_style |->
        <<"w", "r", "i", "t", "i", "n", "g", "_", "s", "t", "y", "l",
        "e">>,
     topic |->
        <<"t", "o", "p", "i", "c">>,
     target_word_count |->
        <<"t", "a", "r", "g", "e", "t", "_", "w", "o", "r", "d", "_", "c",
        "o", "u", "n", "t">>,
     actual_word_count |->
        <<"a", "c", "t", "u", "a", "l", "_", "w", "o", "r", "d", "_", "c",
        "o", "u", "n", "t">>,
     authenticity_validation |->
        <<"a", "u", "t", "h", "e", "n", "t", "i", "c", "i", "t", "y", "_",
        "v", "a", "l", "i", "d", "a", "t", "i", "o", "n">>,
     article |->
        <<"a", "r", "t", "i", "c", "l", "e">>,
     \* the default candidate keys of the normaliser, and keys of its inputs
     items |-> <<"i", "t", "e", "m", "s">>,
     data |-> <<"d", "a", "t", "a">>,
     results |-> <<"r", "e", "s", "u", "l", "t", "s">>,
     x |-> <<"x">>,
     y |-> <<"y">>,
     a |-> <<"a">>,
     count |-> <<"c", "o", "u", "n", "t">>,
     \* the parameters of chat.completions.create
     max_completion_tokens |->
        <<"m", "a", "x", "_", "c", "o", "m", "p", "l", "e", "t", "i", "o", "n", "_", "t", "o", "k", "e", "n", "s">>,
     max_tokens |->
        <<"m", "a", "x", "_", "t", "o", "k", "e", "n", "s">>,
     temperature |->
        <<"t", "e", "m", "p", "e", "r", "a", "t", "u", "r", "e">>,
     response_format |->
        <<"r", "e", "s", "p", "o", "n", "s", "e", "_", "f", "o", "r", "m", "a", "t">>,
     type |->
        <<"t", "y", "p", "e">>]

PreviewLen == 500


DefaultPossibleKeys == <<Key.items, Key.data, Key.results>>

EmptyMarker == <<"(", "e", "m", "p", "t", "y", ")">>

\* f"Unexpected response type: {type(data)}"
UnexpectedTypeError(v) ==
    [t |-> "str", prefix |-> "Unexpected response type: ", typename |-> v.t,
     e |-> "", pos |-> 0, preview |-> <<>>]

\* f"JSON parse error: {e}\nPreview: {preview}..."
JSONParseError_NoCap(r, text) ==
    [t |-> "str", prefix |-> "JSON parse error: ", typename |-> "",
     e |-> r.msg, pos |-> r.next,
     preview |-> IF text # <<>>
                 THEN text
                 ELSE EmptyMarker]

JSONParseError(r, text) ==
    [t |-> "str", prefix |-> "JSON parse error: ", typename |-> "",
     e |-> r.msg, pos |-> r.next,
     preview |-> IF text # <<>>
                 THEN SubSeq(text, 1, IF Len(text) < PreviewLen THEN Len(text) ELSE PreviewLen)
                 ELSE EmptyMarker]

\* parsed: json.loads returned, and data is the value it returned
Returned(items, error, cleaned, parsed, d) ==
    [raised |-> "none", items |-> items, error |-> error,
     cleaned |-> cleaned, parsed |-> parsed, data |-> d]

Raised(exc) ==
    [raised |-> exc, items |-> PyNone, error |-> PyNone,
     cleaned |-> <<>>, parsed |-> FALSE, data |-> PyNone]

\* mutant of KnownKeyLookup: the mapping's own key order decides
KnownKeyLookup_DictOrder(d, keys) ==
    LET hits == {i \in 1..Len(d.pairs) : \E j \in 1..Len(keys) : keys[j] = d.pairs[i].k}
    IN IF hits = {} THEN [found |-> FALSE, val |-> PyNone]
       ELSE [found |-> TRUE, val |-> d.pairs[Min(hits)].v]

\* Case 2: for key in possible_keys: if key in data: return data[key]
RECURSIVE KnownKeyLookup(_, _)
KnownKeyLookup(d, keys) ==
    IF keys = <<>> THEN [found |-> FALSE, val |-> PyNone]
    ELSE IF DictHas(d, Head(keys)) THEN [found |-> TRUE, val |-> DictGet(d, Head(keys))]
    ELSE KnownKeyLookup(d, Tail(keys))

\* mutant of FirstListValue: the isinstance test is missing
FirstListValue_NoTypeCheck(ps) ==
    IF ps = <<>> THEN [found |-> FALSE, val |-> PyNone]
    ELSE [found |-> TRUE, val |-> Head(ps).v]

\* Case 3: for value in data.values(): if isinstance(value, list): return value
RECURSIVE FirstListValue(_)
FirstListValue(ps) ==
    IF ps = <<>> THEN [found |-> FALSE, val |-> PyNone]
    ELSE IF Head(ps).v.t = "list" THEN [found |-> TRUE, val |-> Head(ps).v]
    ELSE FirstListValue(Tail(ps))

\* mutant of ResolveShape: Case 1 (already a list) is missing
ResolveShape_NoListCase(d, keys) ==
    IF d.t = "dict" THEN
        IF KnownKeyLookup(d, keys).found
        THEN [items |-> KnownKeyLookup(d, keys).val, error |-> PyNone]
        ELSE IF FirstListValue(d.pairs).found
        THEN [items |-> FirstListValue(d.pairs).val, error |-> PyNone]
        ELSE [items |-> PyList(<<d>>), error |-> PyNone]
    ELSE [items |-> PyNone, error |-> UnexpectedTypeError(d)]

\* mutant of ResolveShape: Case 4 returns the mapping itself, not wrapped
ResolveShape_NoWrap(d, keys) ==
    IF d.t = "list" THEN [items |-> d, error |-> PyNone]
    ELSE IF d.t = "dict" THEN
        IF KnownKeyLookup(d, keys).found
        THEN [items |-> KnownKeyLookup(d, keys).val, error |-> PyNone]
        ELSE IF FirstListValue(d.pairs).found
        THEN [items |-> FirstListValue(d.pairs).val, error |-> PyNone]
        ELSE [items |-> d, error |-> PyNone]
    ELSE [items |-> PyNone, error |-> UnexpectedTypeError(d)]

\* mutant of ResolveShape: a value that is not a mapping is passed through,
\* as the generators' own parsing does
ResolveShape_ScalarPassed(d, keys) ==
    IF d.t = "dict" THEN
        IF KnownKeyLookup(d, keys).found
        THEN [items |-> KnownKeyLookup(d, keys).val, error |-> PyNone]
        ELSE IF FirstListValue(d.pairs).found
        THEN [items |-> FirstListValue(d.pairs).val, error |-> PyNone]
        ELSE [items |-> PyList(<<d>>), error |-> PyNone]
    ELSE [items |-> d, error |-> PyNone]

\* the shape resolution inside the try block, on the value json.loads gave
ResolveShape(d, keys) ==
    IF d.t = "list" THEN [items |-> d, error |-> PyNone]
    ELSE IF d.t = "dict" THEN
        IF KnownKeyLookup(d, keys).found
        THEN [items |-> KnownKeyLookup(d, keys).val, error |-> PyNone]
        ELSE IF FirstListValue(d.pairs).found
        THEN [items |-> FirstListValue(d.pairs).val, error |-> PyNone]
        ELSE [items |-> PyList(<<d>>), error |-> PyNone]
    ELSE [items |-> PyNone, error |-> UnexpectedTypeError(d)]

parse_llm_json_response(c, pkeys) ==
    LET keys == IF pkeys.t = "NoneType" THEN DefaultPossibleKeys ELSE pkeys.items
        cl == clean_json_response(c)
        r == Loads(cl.s)
        out == ResolveShape(r.val, keys)
    IN IF cl.raised # "none" THEN Raised(cl.raised)
       ELSE IF ~r.ok THEN Returned(PyNone, JSONParseError(r, cl.s), cl.s, FALSE, PyNone)
       ELSE Returned(out.items, out.error, cl.s, TRUE, r.val)

-----------------------------------------------------------------------------
(* Inputs of the normaliser *)


Rec1 == PyDict(<<Pair(Key.a, PyInt(1))>>)
Rec2 == PyDict(<<Pair(Key.a, PyInt(2))>>)

Scalars == {PyNone, PyBool(TRUE), PyBool(FALSE), PyInt(0), PyInt(1), PyInt(12),
            PyStr(<<>>), PyStr(<<"a">>)}

Elems == {PyInt(1), PyStr(<<"a">>), PyNone, Rec1, Rec2, PyList(<<PyInt(1)>>)}

Lists == {PyList(xs) : xs \in SeqsUpTo(Elems, MaxLen)}

FieldKeys == {Key.items, Key.data, Key.results, Key.x, Key.y}
FieldVals == {PyInt(1), PyNone, PyList(<<>>), PyList(<<Rec1>>), Rec1}

Dicts ==
    {PyDict(ps) : ps \in
        {q \in SeqsUpTo({Pair(k, v) : k \in FieldKeys, v \in FieldVals}, MaxFields) :
            \A i, j \in 1..Len(q) : q[i].k = q[j].k => i = j}}

Docs == Scalars \cup Lists \cup Dicts

Wraps == {"plain", "fence", "fencejson"}

Render(d, w) ==
    CASE w = "plain" -> Dumps(d)
      [] w = "fence" -> Fence \o <<NL>> \o Dumps(d) \o <<NL>> \o Fence
      [] w = "fencejson" ->
            Fence \o <<"j", "s", "o", "n", NL>> \o Dumps(d) \o <<NL>> \o Fence

\* fenced completions whose closing line is not a bare fence
LooseWraps == {"indentclose", "noclose", "textclose"}

RenderLoose(d, w) ==
    CASE w = "indentclose" -> Fence \o <<NL>> \o Dumps(d) \o <<NL, " ">> \o Fence
      [] w = "noclose" -> Fence \o <<"j", "s", "o", "n", NL>> \o Dumps(d)
      [] w = "textclose" -> Fence \o <<NL>> \o Dumps(d) \o <<NL>> \o Fence \o <<"1">>

\* the documents of the calls on fence-wrapped content
FenceDocs == Scalars \cup Lists \cup {d \in Dicts : Len(d.pairs) <= 1}

\* the markdown fence a completion puts around c
FenceTags == {"bare", "json"}

FenceWrap(c, tag) ==
    (IF tag = "json" THEN Fence \o <<"j", "s", "o", "n">> ELSE Fence)
        \o <<NL>> \o c \o <<NL>> \o Fence

\* texts around the preview length, none of them JSON
LongText(n) == [i \in 1..n |-> IF i % 2 = 1 THEN "]" ELSE "["]
LongStrings == {LongText(n) : n \in {PreviewLen - 1, PreviewLen, PreviewLen + 1}}

RawAlphabet == {"[", "]", "{", "}", ",", "1", " ", Quote, Backtick, NL}
RawStrings == SeqsUpTo(RawAlphabet, MaxRaw)

KeyChoices ==
    {PyNone, PyList(<<>>), PyList(<<Key.items>>), PyList(<<Key.data, Key.items>>),
     PyList(<<Key.x>>), PyList(<<Key.x, Key.data>>)}

NotCalled == [raised |-> "notcalled", items |-> PyNone, error |-> PyNone,
              cleaned |-> <<>>, parsed |-> FALSE, data |-> PyNone]


-----------------------------------------------------------------------------
(* The environment: os.getenv, and the credential checks *)

Unset == "<unset>"

ProviderValues == {Unset, "openai", "OPENAI", "openrouter", "OpenRouter", "azure"}
KeyValues == {Unset, "", "sk-1"}

Environments ==
    [LLM_PROVIDER : ProviderValues, OPENAI_API_KEY : KeyValues,
     OPENROUTER_API_KEY : KeyValues]

\* str.lower on the provider names of the model
Lower(str) ==
    CASE str = "OPENAI" -> "openai"
      [] str = "OpenRouter" -> "openrouter"
      [] OTHER -> str

\* os.getenv(name, default) on an already selected variable
Getenv(value, default) == IF value = Unset THEN default ELSE value

\* not os.getenv(NAME): unset or empty
EnvFalsy(value) == value \in {Unset, ""}

\* mutant of check_api_key: the provider name is compared as it is written
check_api_key_CaseSensitive(env) ==
    LET provider == Getenv(env.LLM_PROVIDER, "openai")
    IN IF provider = "openrouter"
       THEN ~EnvFalsy(env.OPENROUTER_API_KEY)
       ELSE ~EnvFalsy(env.OPENAI_API_KEY)

check_api_key(env) ==
    LET provider == Lower(Getenv(env.LLM_PROVIDER, "openai"))
    IN IF provider = "openrouter"
       THEN ~EnvFalsy(env.OPENROUTER_API_KEY)
       ELSE ~EnvFalsy(env.OPENAI_API_KEY)

\* get_llm_client() with no arguments: TRUE when it returns a client,
\* FALSE when it raises ValueError
get_llm_client(env) ==
    LET provider == Lower(Getenv(env.LLM_PROVIDER, "openai"))
    IN IF provider = "openrouter" THEN ~EnvFalsy(env.OPENROUTER_API_KEY)
       ELSE IF provider = "openai" THEN ~EnvFalsy(env.OPENAI_API_KEY)
       ELSE FALSE

-----------------------------------------------------------------------------
(* The generators and what a generation function can do *)

\* the keys of app.GENERATORS
GENERATORS ==
    {"twitter_wizard", "twitter_lived", "twitter_soft_hard", "twitter_aphorisms",
     "substack_readers", "substack_styles"}

\* generators whose main() runs a generation
MainGenerators == GENERATORS \cup {"substack_about"}


\* a GenerationResult with n items: a non-empty mapping
GenResult(n) == PyDict(<<Pair(Key.count, PyInt(n))>>)

GenResults == {GenResult(0), GenResult(2)}

GenReturned(v) == [raised |-> FALSE, val |-> v]
GenRaised == [raised |-> TRUE, val |-> PyNone]

\* string literals of the generators
Literal ==
    [o3 |->
        <<"o", "3", "-", "2", "0", "2", "5", "-", "0", "4", "-", "1",
        "6">>,
     gpt4o |->
        <<"g", "p", "t", "-", "4", "o">>,
     claude |->
        <<"a", "n", "t", "h", "r", "o", "p", "i", "c", "/", "c", "l", "a",
        "u", "d", "e", "-", "3", ".", "5", "-", "s", "o", "n", "n", "e",
        "t">>,
     algorithm_source |->
        <<"g", "i", "t", "h", "u", "b", ".", "c", "o", "m", "/", "t", "w",
        "i", "t", "t", "e", "r", "/", "t", "h", "e", "-", "a", "l", "g",
        "o", "r", "i", "t", "h", "m", " ", "(", "2", "0", "2", "3", " ",
        "r", "e", "l", "e", "a", "s", "e", ")">>,
     theoretical_framework |->
        <<"B", "o", "u", "r", "d", "i", "e", "u", " ", "+", " ", "H", "e",
        "i", "d", "e", "g", "g", "e", "r", " ", "+", " ", "M", "o", "n",
        "a", "d", "i", "s", "m", " ", "(", "i", "n", "f", "o", "r", "m",
        "i", "n", "g", ",", " ", "n", "o", "t", " ", "v", "i", "s", "i",
        "b", "l", "e", ")">>,
     newsletter_topic |->
        <<"C", "r", "i", "t", "i", "c", "a", "l", " ", "a", "n", "a", "l",
        "y", "s", "i", "s", " ", "o", "f", " ", "t", "e", "c", "h", " ",
        "c", "u", "l", "t", "u", "r", "e", ",", " ", "A", "I", " ", "h",
        "y", "p", "e", ",", " ", "a", "n", "d", " ", "S", "i", "l", "i",
        "c", "o", "n", " ", "V", "a", "l", "l", "e", "y", " ", "i", "d",
        "e", "o", "l", "o", "g", "y">>,
     medium |->
        <<"m", "e", "d", "i", "u", "m">>,
     embedded |->
        <<"E", "M", "B", "E", "D", "D", "E", "D">>,
     about_page |->
        <<"a", "b", "o", "u", "t", "_", "p", "a", "g", "e">>,
     wizard_demographics |->
        <<"w", "i", "z", "a", "r", "d", "_", "d", "e", "m", "o", "g", "r", "a", "p", "h", "i", "c", "s">>,
     o3_mini |->
        <<"o", "3", "-", "m", "i", "n", "i", "-", "2", "0", "2", "5", "-", "0", "1", "-", "3", "1">>,
     O3_upper |->
        <<"O", "3", "-", "M", "i", "n", "i">>,
     kimi |->
        <<"m", "o", "o", "n", "s", "h", "o", "t", "a", "i", "/", "k", "i", "m", "i", "-", "k", "2", "-", "0", "9", "0", "5">>,
     deepseek |->
        <<"d", "e", "e", "p", "s", "e", "e", "k", "/", "d", "e", "e", "p", "s", "e", "e", "k", "-", "c", "h", "a", "t">>,
     DeepSeek_upper |->
        <<"D", "e", "e", "p", "S", "e", "e", "k", "-", "V", "3">>,
     qwen |->
        <<"q", "w", "e", "n", "/", "q", "w", "e", "n", "-", "2", ".", "5", "-", "7", "2", "b", "-", "i", "n", "s", "t", "r", "u", "c", "t">>,
     moonshot_o3 |->
        <<"m", "o", "o", "n", "s", "h", "o", "t", "-", "o", "3">>,
     gpt4turbo |->
        <<"g", "p", "t", "-", "4", "-", "t", "u", "r", "b", "o", "-", "p", "r", "e", "v", "i", "e", "w">>,
     json_object |->
        <<"j", "s", "o", "n", "_", "o", "b", "j", "e", "c", "t">>,
     models_without_response_format |->
        <<<<"m", "o", "o", "n", "s", "h", "o", "t">>,
          <<"k", "i", "m", "i">>,
          <<"d", "e", "e", "p", "s", "e", "e", "k">>,
          <<"q", "w", "e", "n">>>>]

\* datetime.now().isoformat(), at the one instant of a run
NowIso ==
    <<"2", "0", "2", "5", "-", "0", "1", "-", "0", "1", "T", "0", "0", ":",
    "0", "0", ":", "0", "0">>

\* the keys a list generator looks for in a parsed mapping, in its order
GenKeys(g) ==
    CASE g = "twitter_wizard" ->
            <<Key.demographics, Key.profiles, Key.personas, Key.tribes, Key.wizards>>
      [] g = "twitter_lived" ->
            <<Key.demographics, Key.profiles, Key.personas, Key.experiences>>
      [] g = "twitter_soft_hard" ->
            <<Key.demographics, Key.profiles, Key.personas, Key.tribes>>
      [] g = "twitter_aphorisms" -> <<Key.aphorisms, Key.takes, Key.tweets>>
      [] g = "substack_readers" ->
            <<Key.demographics, Key.reader_demographics, Key.profiles>>
      [] g = "substack_styles" -> <<Key.styles, Key.writing_styles>>

\* the key of the result that holds the items, and the key of their count
ItemsKey(g) ==
    CASE g = "twitter_aphorisms" -> Key.aphorisms
      [] g = "substack_styles" -> Key.styles
      [] OTHER -> Key.demographics

CountKey(g) ==
    CASE g = "twitter_aphorisms" -> Key.num_aphorisms
      [] g = "substack_styles" -> Key.num_styles
      [] OTHER -> Key.num_demographics

\* the literal model_used of a list generator
ModelUsed(g) == IF g = "substack_readers" THEN Literal.gpt4o ELSE Literal.o3

\* the fields between model_used and the count
ExtraFields(g) ==
    CASE g = "twitter_wizard" -> <<Pair(Key.algorithm_source, PyStr(Literal.algorithm_source))>>
      [] g = "twitter_lived" ->
            <<Pair(Key.theoretical_framework, PyStr(Literal.theoretical_framework))>>
      [] OTHER -> <<>>

\* len(v): None, bool and int have no len() (TypeError)
HasLen(v) == v.t \in {"str", "list", "dict"}

PyLen(v) ==
    CASE v.t = "str" -> Len(v.s)
      [] v.t = "list" -> Len(v.items)
      [] v.t = "dict" -> Len(v.pairs)

\* the generators' own shape resolution: a value that is not a mapping is
\* taken as it is
InlineItems(d, keys) ==
    IF d.t = "dict" THEN
        IF KnownKeyLookup(d, keys).found THEN KnownKeyLookup(d, keys).val
        ELSE IF FirstListValue(d.pairs).found THEN FirstListValue(d.pairs).val
        ELSE PyList(<<d>>)
    ELSE d

ListResult(g, items) ==
    PyDict(<<Pair(Key.generated_at, PyStr(NowIso)),
             Pair(Key.model_used, PyStr(ModelUsed(g)))>>
           \o ExtraFields(g)
           \o <<Pair(CountKey(g), PyInt(PyLen(items))),
                Pair(ItemsKey(g), items)>>)

\* mutant of GenerateList: an empty item list is reported as a failure
GenerateList_EmptyIsNone(g, c) ==
    IF g = "substack_readers" /\ ~Truthy(c) THEN GenReturned(PyNone)
    ELSE IF c.t # "str" THEN GenRaised
    ELSE IF ~Loads(c.s).ok THEN GenReturned(PyNone)
    ELSE IF ~HasLen(InlineItems(Loads(c.s).val, GenKeys(g))) THEN GenRaised
    ELSE IF PyLen(InlineItems(Loads(c.s).val, GenKeys(g))) = 0 THEN GenReturned(PyNone)
    ELSE GenReturned(ListResult(g, InlineItems(Loads(c.s).val, GenKeys(g))))

\* a list generator's generate function, from the completion text c on:
\* only reader_demographics tests "if not content"; json.loads(None) raises
\* TypeError, which the except clause for JSONDecodeError does not catch
GenerateList(g, c) ==
    IF g = "substack_readers" /\ ~Truthy(c) THEN GenReturned(PyNone)
    ELSE IF c.t # "str" THEN GenRaised
    ELSE IF ~Loads(c.s).ok THEN GenReturned(PyNone)
    ELSE IF ~HasLen(InlineItems(Loads(c.s).val, GenKeys(g))) THEN GenRaised
    ELSE GenReturned(ListResult(g, InlineItems(Loads(c.s).val, GenKeys(g))))

\* get_default_model() with LLM_MODEL and the *_DEFAULT_MODEL variables unset
get_default_model(env) ==
    IF Lower(Getenv(env.LLM_PROVIDER, "openai")) = "openrouter"
    THEN Literal.claude ELSE Literal.gpt4o

\* {**ps, **qs}: the pairs of qs set one after the other
RECURSIVE MergePairs(_, _)
MergePairs(ps, qs) ==
    IF qs = <<>> THEN ps
    ELSE MergePairs(DictSet(ps, Head(qs).k, Head(qs).v), Tail(qs))

\* generate_about_page(newsletter_topic=..., length="medium") as main() calls
\* it, from the completion text c on; ** of a non-mapping raises TypeError
generate_about_page(env, c) ==
    LET cl == clean_json_response(c)
        r == Loads(cl.s)
    IN IF cl.raised # "none" THEN GenRaised
       ELSE IF ~r.ok THEN GenReturned(PyNone)
       ELSE IF r.val.t # "dict" THEN GenRaised
       ELSE GenReturned(PyDict(MergePairs(
                <<Pair(Key.generated_at, PyStr(NowIso)),
                  Pair(Key.model_used, PyStr(get_default_model(env))),
                  Pair(Key.target_length, PyStr(Literal.medium)),
                  Pair(Key.target_words, PyInt(400)),
                  Pair(Key.used_demographic, PyBool(FALSE)),
                  Pair(Key.used_style, PyBool(FALSE)),
                  Pair(Key.newsletter_topic, PyStr(Literal.newsletter_topic))>>,
                r.val.pairs)))

\* the demographic label, style name and topic of the article request
Request == [label |-> <<"L">>, style |-> <<"S">>, topic |-> <<"T">>]

\* len(s.split()): the number of runs of characters that are not whitespace
WordCount(s) ==
    Cardinality({i \in 1..Len(s) : ~IsWs(s[i]) /\ (i = 1 \/ IsWs(s[i - 1]))})

\* generate_article(...) as POST /api/article/generate calls it (model
\* "gpt-4o", word_count "medium"), from the completion text c on
generate_article(c) ==
    LET cl == clean_json_response(c)
    IN IF cl.raised # "none" THEN GenRaised
       ELSE GenReturned(PyDict(
                <<Pair(Key.generated_at, PyStr(NowIso)),
                  Pair(Key.model_used, PyStr(Literal.gpt4o)),
                  Pair(Key.target_demographic, PyStr(Request.label)),
                  Pair(Key.writing_style, PyStr(Request.style)),
                  Pair(Key.topic, PyStr(Request.topic)),
                  Pair(Key.target_word_count, PyInt(3000)),
                  Pair(Key.actual_word_count, PyInt(WordCount(cl.s))),
                  Pair(Key.authenticity_validation, PyStr(Literal.embedded)),
                  Pair(Key.article, PyStr(cl.s))>>))

\* JSON documents a completion may hold
CompletionDocs ==
    {PyList(<<>>), PyList(<<Rec1, Rec2>>), Rec1,
     PyDict(<<Pair(Key.demographics, PyList(<<Rec1>>))>>),
     PyDict(<<Pair(Key.x, PyInt(1)), Pair(Key.styles, PyList(<<Rec1, Rec2>>))>>),
     PyDict(<<Pair(Key.demographics, PyInt(1))>>),
     PyDict(<<Pair(Key.model_used, PyStr(<<"a">>))>>),
     PyInt(12), PyStr(<<"a">>), PyStr(<<>>), PyNone}

\* message.content of a completion: no text, a document, a fenced document,
\* or text that is not JSON
Completions ==
    {PyNone, PyStr(<<>>), PyStr(<<"[", "1", ",">>),
     PyStr(Render(PyList(<<Rec1>>), "fencejson"))}
        \cup {PyStr(Render(d, "plain")) : d \in CompletionDocs}

\* no completion was received (the function is not a generator of this
\* repository, or the request raised)
NoCompletion == [t |-> "NoCompletion"]

WithText(out, c) == [raised |-> out.raised, val |-> out.val, text |-> c]

\* what a call of the generation function g can do under env
GenOutcomes(g, env) ==
    CASE g = "callable" ->
            \* the arbitrary generate_func handed to run_generation
            {WithText(GenReturned(v), NoCompletion) :
                v \in {PyNone, PyBool(FALSE), PyDict(<<>>)} \cup GenResults}
              \cup {WithText(GenRaised, NoCompletion)}
      [] g \in GENERATORS ->
            \* OpenAI(api_key=os.getenv("OPENAI_API_KEY")) or the request raises
            \* without a key; with one the request raises or returns a completion
            IF EnvFalsy(env.OPENAI_API_KEY) THEN {WithText(GenRaised, NoCompletion)}
            ELSE {WithText(GenRaised, NoCompletion)}
                   \cup {WithText(GenerateList(g, c), c) : c \in Completions}
      [] g = "substack_about" ->
            IF ~get_llm_client(env) THEN {WithText(GenRaised, NoCompletion)}
            ELSE {WithText(GenRaised, NoCompletion)}
                   \cup {WithText(generate_about_page(env, c), c) : c \in Completions}
      [] g = "substack_article" ->
            IF ~get_llm_client(env) THEN {WithText(GenRaised, NoCompletion)}
            ELSE {WithText(GenRaised, NoCompletion)}
                   \cup {WithText(generate_article(c), c) : c \in Completions}

\* the credential check main() of generator g makes
MainCredentialCheck(g, env) ==
    IF g = "substack_about" THEN check_api_key(env)
    ELSE ~EnvFalsy(env.OPENAI_API_KEY)

-----------------------------------------------------------------------------
(* Call instrumentation *)

CheckEv(ok) == [op |-> "check", ok |-> ok, arg |-> PyNone, fmt |-> ""]
LoadEv(ok) == [op |-> "load", ok |-> ok, arg |-> PyNone, fmt |-> ""]
GenEv(out) == [op |-> "generate", ok |-> ~out.raised, arg |-> out.val, fmt |-> ""]
SaveEv(d, fmt, ok) == [op |-> "save", ok |-> ok, arg |-> d, fmt |-> fmt]
MoveEv(fmt, ok) == [op |-> "move", ok |-> ok, arg |-> PyNone, fmt |-> fmt]

Calls(op) == SelectSeq(log, LAMBDA ev : ev.op = op)

\* an artifact on disk: whole when the save that wrote it returned
Artifact(fmt, dir, whole) == [fmt |-> fmt, dir |-> dir, whole |-> whole]

\* what a save call may leave in the working directory: the artifact when
\* it returns; nothing, or a file it opened and did not finish, when it raises
Written(fmt, ok) ==
    IF ok THEN {{Artifact(fmt, "cwd", TRUE)}}
    ELSE {{}, {Artifact(fmt, "cwd", FALSE)}}

\* shutil.move of the artifact of format fmt into outputs/
Moved(fs, fmt) ==
    {IF f.fmt = fmt /\ f.dir = "cwd" THEN [f EXCEPT !.dir = "outputs"] ELSE f : f \in fs}

Idle == [fn |-> "idle", g |-> "none"]

Finish(r) == pc' = "done" /\ ret' = r

-----------------------------------------------------------------------------
(* utils.run_generation(generate_func, save_func) *)

RG_Call ==
    /\ pc = "idle"
    /\ entry' = [fn |-> "run_generation", g |-> "callable"]
    /\ pc' = "check"
    /\ UNCHANGED <<environ, data, log, ret, completion, files>>
    /\ UNCHANGED <<parseVars, saveVars, cfgVars>>

\* mutant of RG_Check: the result of the check is ignored
RG_Check_NoGate ==
    /\ entry.fn = "run_generation" /\ pc = "check"
    /\ log' = Append(log, CheckEv(check_api_key(environ)))
    /\ pc' = "generate"
    /\ UNCHANGED <<environ, entry, data, ret, completion, files>>
    /\ UNCHANGED <<parseVars, saveVars, cfgVars>>

\* if not check_api_key(): return False
RG_Check ==
    /\ entry.fn = "run_generation" /\ pc = "check"
    /\ log' = Append(log, CheckEv(check_api_key(environ)))
    /\ IF check_api_key(environ)
       THEN pc' = "generate" /\ UNCHANGED ret
       ELSE Finish("False")
    /\ UNCHANGED <<environ, entry, data, completion, files>>
    /\ UNCHANGED <<parseVars, saveVars, cfgVars>>

\* mutant of RG_Generate: "if data is not None" in place of "if data"
RG_Generate_NoneOnly ==
    /\ entry.fn = "run_generation" /\ pc = "generate"
    /\ \E out \in GenOutcomes(entry.g, environ) :
         /\ log' = Append(log, GenEv(out))
         /\ data' = out.val
         /\ completion' = out.text
         /\ IF out.raised THEN Finish("raised")
            ELSE IF out.val.t # "NoneType" THEN pc' = "save_markdown" /\ UNCHANGED ret
            ELSE Finish("False")
    /\ UNCHANGED <<environ, entry, files>>
    /\ UNCHANGED <<parseVars, saveVars, cfgVars>>

\* data = generate_func(**generate_kwargs); if data: ... else: return False
RG_Generate ==
    /\ entry.fn = "run_generation" /\ pc = "generate"
    /\ \E out \in GenOutcomes(entry.g, environ) :
         /\ log' = Append(log, GenEv(out))
         /\ data' = out.val
         /\ completion' = out.text
         /\ IF out.raised THEN Finish("raised")
            ELSE IF Truthy(out.val) THEN pc' = "save_markdown" /\ UNCHANGED ret
            ELSE Finish("False")
    /\ UNCHANGED <<environ, entry, files>>
    /\ UNCHANGED <<parseVars, saveVars, cfgVars>>

\* mutant of RG_SaveMarkdown: an exception of the save is caught and the
\* run goes on with the second save
RG_SaveMarkdown_Swallow ==
    /\ entry.fn = "run_generation" /\ pc = "save_markdown"
    /\ \E ok \in BOOLEAN :
         /\ log' = Append(log, SaveEv(data, "markdown", ok))
         /\ \E art \in Written("markdown", ok) : files' = files \cup art
         /\ pc' = "save_json" /\ UNCHANGED ret
    /\ UNCHANGED <<environ, entry, data, completion>>
    /\ UNCHANGED <<parseVars, saveVars, cfgVars>>

\* mutant of RG_SaveMarkdown: the first save asks for json
RG_SaveMarkdown_JsonFirst ==
    /\ entry.fn = "run_generation" /\ pc = "save_markdown"
    /\ \E ok \in BOOLEAN :
         /\ log' = Append(log, SaveEv(data, "json", ok))
         /\ \E art \in Written("json", ok) : files' = files \cup art
         /\ IF ok THEN pc' = "save_json" /\ UNCHANGED ret ELSE Finish("raised")
    /\ UNCHANGED <<environ, entry, data, completion>>
    /\ UNCHANGED <<parseVars, saveVars, cfgVars>>

\* save_func(data, output_format="markdown")
RG_SaveMarkdown ==
    /\ entry.fn = "run_generation" /\ pc = "save_markdown"
    /\ \E ok \in BOOLEAN :
         /\ log' = Append(log, SaveEv(data, "markdown", ok))
         /\ \E art \in Written("markdown", ok) : files' = files \cup art
         /\ IF ok THEN pc' = "save_json" /\ UNCHANGED ret ELSE Finish("raised")
    /\ UNCHANGED <<environ, entry, data, completion>>
    /\ UNCHANGED <<parseVars, saveVars, cfgVars>>

\* mutant of RG_SaveJson: a failed save is caught, the markdown artifact is
\* removed and False is returned
RG_SaveJson_RollsBack ==
    /\ entry.fn = "run_generation" /\ pc = "save_json"
    /\ \E ok \in BOOLEAN :
         /\ log' = Append(log, SaveEv(data, "json", ok))
         /\ IF ok
            THEN files' = files \cup {Artifact("json", "cwd", TRUE)} /\ Finish("True")
            ELSE files' = {f \in files : f.fmt # "markdown"} /\ Finish("False")
    /\ UNCHANGED <<environ, entry, data, completion>>
    /\ UNCHANGED <<parseVars, saveVars, cfgVars>>

\* save_func(data, output_format="json"); return True
RG_SaveJson ==
    /\ entry.fn = "run_generation" /\ pc = "save_json"
    /\ \E ok \in BOOLEAN :
         /\ log' = Append(log, SaveEv(data, "json", ok))
         /\ \E art \in Written("json", ok) : files' = files \cup art
         /\ IF ok THEN Finish("True") ELSE Finish("raised")
    /\ UNCHANGED <<environ, entry, data, completion>>
    /\ UNCHANGED <<parseVars, saveVars, cfgVars>>


-----------------------------------------------------------------------------
(* main() of the generator scripts *)

Main_Call(g) ==
    /\ pc = "idle"
    /\ entry' = [fn |-> "main", g |-> g]
    /\ pc' = "check"
    /\ UNCHANGED <<environ, data, log, ret, completion, files>>
    /\ UNCHANGED <<parseVars, saveVars, cfgVars>>

\* if not os.getenv("OPENAI_API_KEY"): return   (about_page: check_api_key())
Main_Check ==
    /\ entry.fn = "main" /\ pc = "check"
    /\ log' = Append(log, CheckEv(MainCredentialCheck(entry.g, environ)))
    /\ IF MainCredentialCheck(entry.g, environ)
       THEN pc' = "generate" /\ UNCHANGED ret
       ELSE Finish("None")
    /\ UNCHANGED <<environ, entry, data, completion, files>>
    /\ UNCHANGED <<parseVars, saveVars, cfgVars>>

Main_Generate ==
    /\ entry.fn = "main" /\ pc = "generate"
    /\ \E out \in GenOutcomes(entry.g, environ) :
         /\ log' = Append(log, GenEv(out))
         /\ data' = out.val
         /\ completion' = out.text
         /\ IF out.raised THEN Finish("raised")
            ELSE IF Truthy(out.val) THEN pc' = "save_markdown" /\ UNCHANGED ret
            ELSE Finish("None")
    /\ UNCHANGED <<environ, entry, files>>
    /\ UNCHANGED <<parseVars, saveVars, cfgVars>>

Main_SaveMarkdown ==
    /\ entry.fn = "main" /\ pc = "save_markdown"
    /\ \E ok \in BOOLEAN :
         /\ log' = Append(log, SaveEv(data, "markdown", ok))
         /\ \E art \in Written("markdown", ok) : files' = files \cup art
         /\ IF ok THEN pc' = "save_json" /\ UNCHANGED ret ELSE Finish("raised")
    /\ UNCHANGED <<environ, entry, data, completion>>
    /\ UNCHANGED <<parseVars, saveVars, cfgVars>>

Main_SaveJson ==
    /\ entry.fn = "main" /\ pc = "save_json"
    /\ \E ok \in BOOLEAN :
         /\ log' = Append(log, SaveEv(data, "json", ok))
         /\ \E art \in Written("json", ok) : files' = files \cup art
         /\ IF ok THEN Finish("None") ELSE Finish("raised")
    /\ UNCHANGED <<environ, entry, data, completion>>
    /\ UNCHANGED <<parseVars, saveVars, cfgVars>>

\* article_writer.main() only prints how to use the generator
Main_Article ==
    /\ pc = "idle"
    /\ entry' = [fn |-> "main", g |-> "substack_article"]
    /\ Finish("None")
    /\ UNCHANGED <<environ, data, log, completion, files>>
    /\ UNCHANGED <<parseVars, saveVars, cfgVars>>

-----------------------------------------------------------------------------
(* app.py: POST /api/generate *)

RequestTypes == GENERATORS \cup {"unknown"}

\* if request.generator_type not in GENERATORS: raise HTTPException(400)
HttpGenerate_Call(gt) ==
    /\ pc = "idle"
    /\ entry' = [fn |-> "http_generate", g |-> gt]
    /\ IF gt \notin GENERATORS THEN Finish("400") ELSE pc' = "load" /\ UNCHANGED ret
    /\ UNCHANGED <<environ, data, log, completion, files>>
    /\ UNCHANGED <<parseVars, saveVars, cfgVars>>

\* load_generator_module and the two getattr calls, inside the try
HttpGenerate_Load ==
    /\ entry.fn = "http_generate" /\ pc = "load"
    /\ \E ok \in BOOLEAN :
         /\ log' = Append(log, LoadEv(ok))
         /\ IF ok THEN pc' = "generate" /\ UNCHANGED ret ELSE Finish("500")
    /\ UNCHANGED <<environ, entry, data, completion, files>>
    /\ UNCHANGED <<parseVars, saveVars, cfgVars>>

\* mutant of HttpGenerate_Generate: the result is not tested
HttpGenerate_Generate_Unchecked ==
    /\ entry.fn = "http_generate" /\ pc = "generate"
    /\ \E out \in GenOutcomes(entry.g, environ) :
         /\ log' = Append(log, GenEv(out))
         /\ data' = out.val
         /\ completion' = out.text
         /\ IF out.raised THEN Finish("500")
            ELSE pc' = "save_markdown" /\ UNCHANGED ret
    /\ UNCHANGED <<environ, entry, files>>
    /\ UNCHANGED <<parseVars, saveVars, cfgVars>>

\* data = generate_func(...); if not data: raise HTTPException(500)
HttpGenerate_Generate ==
    /\ entry.fn = "http_generate" /\ pc = "generate"
    /\ \E out \in GenOutcomes(entry.g, environ) :
         /\ log' = Append(log, GenEv(out))
         /\ data' = out.val
         /\ completion' = out.text
         /\ IF out.raised THEN Finish("500")
            ELSE IF Truthy(out.val) THEN pc' = "save_markdown" /\ UNCHANGED ret
            ELSE Finish("500")
    /\ UNCHANGED <<environ, entry, files>>
    /\ UNCHANGED <<parseVars, saveVars, cfgVars>>

HttpGenerate_SaveMarkdown ==
    /\ entry.fn = "http_generate" /\ pc = "save_markdown"
    /\ \E ok \in BOOLEAN :
         /\ log' = Append(log, SaveEv(data, "markdown", ok))
         /\ \E art \in Written("markdown", ok) : files' = files \cup art
         /\ IF ok THEN pc' = "save_json" /\ UNCHANGED ret ELSE Finish("500")
    /\ UNCHANGED <<environ, entry, data, completion>>
    /\ UNCHANGED <<parseVars, saveVars, cfgVars>>

HttpGenerate_SaveJson ==
    /\ entry.fn = "http_generate" /\ pc = "save_json"
    /\ \E ok \in BOOLEAN :
         /\ log' = Append(log, SaveEv(data, "json", ok))
         /\ \E art \in Written("json", ok) : files' = files \cup art
         /\ IF ok THEN pc' = "move_markdown" /\ UNCHANGED ret ELSE Finish("500")
    /\ UNCHANGED <<environ, entry, data, completion>>
    /\ UNCHANGED <<parseVars, saveVars, cfgVars>>

\* shutil.move(md_file, md_dest)
HttpGenerate_MoveMarkdown ==
    /\ entry.fn = "http_generate" /\ pc = "move_markdown"
    /\ \E ok \in BOOLEAN :
         /\ log' = Append(log, MoveEv("markdown", ok))
         /\ files' = IF ok THEN Moved(files, "markdown") ELSE files
         /\ IF ok THEN pc' = "move_json" /\ UNCHANGED ret ELSE Finish("500")
    /\ UNCHANGED <<environ, entry, data, completion>>
    /\ UNCHANGED <<parseVars, saveVars, cfgVars>>

\* shutil.move(json_file, json_dest); return GenerationResponse(status="success")
HttpGenerate_MoveJson ==
    /\ entry.fn = "http_generate" /\ pc = "move_json"
    /\ \E ok \in BOOLEAN :
         /\ log' = Append(log, MoveEv("json", ok))
         /\ files' = IF ok THEN Moved(files, "json") ELSE files
         /\ IF ok THEN Finish("200") ELSE Finish("500")
    /\ UNCHANGED <<environ, entry, data, completion>>
    /\ UNCHANGED <<parseVars, saveVars, cfgVars>>

-----------------------------------------------------------------------------
(* app.py: POST /api/article/generate *)

\* fields: all of demographic_label, style_name, topic given;
\* found: both the demographic and the style exist in the outputs directory
HttpArticle_Call(fields, found) ==
    /\ pc = "idle"
    /\ entry' = [fn |-> "http_article", g |-> "substack_article"]
    /\ IF ~fields THEN Finish("400")
       ELSE IF ~found THEN Finish("404")
       ELSE pc' = "generate" /\ UNCHANGED ret
    /\ UNCHANGED <<environ, data, log, completion, files>>
    /\ UNCHANGED <<parseVars, saveVars, cfgVars>>

\* article_data = generate_article(...); if not article_data: raise HTTPException(500)
HttpArticle_Generate ==
    /\ entry.fn = "http_article" /\ pc = "generate"
    /\ \E out \in GenOutcomes(entry.g, environ) :
         /\ log' = Append(log, GenEv(out))
         /\ data' = out.val
         /\ completion' = out.text
         /\ IF out.raised THEN Finish("500")
            ELSE IF Truthy(out.val) THEN pc' = "save_markdown" /\ UNCHANGED ret
            ELSE Finish("500")
    /\ UNCHANGED <<environ, entry, files>>
    /\ UNCHANGED <<parseVars, saveVars, cfgVars>>

HttpArticle_SaveMarkdown ==
    /\ entry.fn = "http_article" /\ pc = "save_markdown"
    /\ \E ok \in BOOLEAN :
         /\ log' = Append(log, SaveEv(data, "markdown", ok))
         /\ \E art \in Written("markdown", ok) : files' = files \cup art
         /\ IF ok THEN pc' = "save_json" /\ UNCHANGED ret ELSE Finish("500")
    /\ UNCHANGED <<environ, entry, data, completion>>
    /\ UNCHANGED <<parseVars, saveVars, cfgVars>>

HttpArticle_SaveJson ==
    /\ entry.fn = "http_article" /\ pc = "save_json"
    /\ \E ok \in BOOLEAN :
         /\ log' = Append(log, SaveEv(data, "json", ok))
         /\ \E art \in Written("json", ok) : files' = files \cup art
         /\ IF ok THEN pc' = "move_markdown" /\ UNCHANGED ret ELSE Finish("500")
    /\ UNCHANGED <<environ, entry, data, completion>>
    /\ UNCHANGED <<parseVars, saveVars, cfgVars>>

HttpArticle_MoveMarkdown ==
    /\ entry.fn = "http_article" /\ pc = "move_markdown"
    /\ \E ok \in BOOLEAN :
         /\ log' = Append(log, MoveEv("markdown", ok))
         /\ files' = IF ok THEN Moved(files, "markdown") ELSE files
         /\ IF ok THEN pc' = "move_json" /\ UNCHANGED ret ELSE Finish("500")
    /\ UNCHANGED <<environ, entry, data, completion>>
    /\ UNCHANGED <<parseVars, saveVars, cfgVars>>

HttpArticle_MoveJson ==
    /\ entry.fn = "http_article" /\ pc = "move_json"
    /\ \E ok \in BOOLEAN :
         /\ log' = Append(log, MoveEv("json", ok))
         /\ files' = IF ok THEN Moved(files, "json") ELSE files
         /\ IF ok THEN Finish("200") ELSE Finish("500")
    /\ UNCHANGED <<environ, entry, data, completion>>
    /\ UNCHANGED <<parseVars, saveVars, cfgVars>>

-----------------------------------------------------------------------------
(* Specification of the entry points *)

\* no persistence call was made, no file exists
SaveIdle ==
    /\ clock = 0
    /\ result = PyNone
    /\ gentime = 0
    /\ saved = <<>>
    /\ disk = {}
    /\ answer = [op |-> "none", status |-> "", names |-> {}, body |-> PyNone]

\* no configuration function was called
CfgIdle ==
    /\ model = <<>>
    /\ params = PyNone
    /\ checked = "notcalled"
    /\ client = "notcalled"

ParseIdle ==
    /\ content = PyStr(<<>>)
    /\ possible_keys = PyNone
    /\ presult = NotCalled
    /\ ppc = "unused"
    /\ doc = PyNone
    /\ wrap = "none"
    /\ fence = "none"
    /\ fresult = NotCalled

Init ==
    /\ ParseIdle
    /\ environ \in Environments
    /\ entry = Idle
    /\ pc = "idle"
    /\ data = PyNone
    /\ log = <<>>
    /\ ret = "none"
    /\ completion = NoCompletion
    /\ files = {}
    /\ SaveIdle
    /\ CfgIdle

Next ==
    \/ RG_Call
    \/ RG_Check
    \/ RG_Generate
    \/ RG_SaveMarkdown
    \/ RG_SaveJson
    \/ \E g \in MainGenerators : Main_Call(g)
    \/ Main_Check
    \/ Main_Generate
    \/ Main_SaveMarkdown
    \/ Main_SaveJson
    \/ Main_Article
    \/ \E gt \in RequestTypes : HttpGenerate_Call(gt)
    \/ HttpGenerate_Load
    \/ HttpGenerate_Generate
    \/ HttpGenerate_SaveMarkdown
    \/ HttpGenerate_SaveJson
    \/ HttpGenerate_MoveMarkdown
    \/ HttpGenerate_MoveJson
    \/ \E fields, found \in BOOLEAN : HttpArticle_Call(fields, found)
    \/ HttpArticle_Generate
    \/ HttpArticle_SaveMarkdown
    \/ HttpArticle_SaveJson
    \/ HttpArticle_MoveMarkdown
    \/ HttpArticle_MoveJson

Spec == Init /\ [][Next]_vars

-----------------------------------------------------------------------------
(* Specification of the normaliser: one call on each input *)

RunIdle ==
    /\ environ = [LLM_PROVIDER |-> Unset, OPENAI_API_KEY |-> Unset,
                  OPENROUTER_API_KEY |-> Unset]
    /\ entry = Idle
    /\ pc = "idle"
    /\ data = PyNone
    /\ log = <<>>
    /\ ret = "none"
    /\ completion = NoCompletion
    /\ files = {}

ParseInit ==
    /\ RunIdle
    /\ SaveIdle
    /\ CfgIdle
    /\ possible_keys \in KeyChoices
    /\ presult = NotCalled
    /\ ppc = "start"
    /\ fence = "none"
    /\ fresult = NotCalled
    /\ \/ /\ doc \in Docs
          /\ wrap \in Wraps
          /\ content = PyStr(Render(doc, wrap))
       \/ /\ doc \in Scalars \cup Lists
          /\ wrap \in LooseWraps
          /\ content = PyStr(RenderLoose(doc, wrap))
       \/ /\ doc = PyNone
          /\ wrap = "raw"
          /\ content \in {PyStr(s) : s \in RawStrings \cup LongStrings} \cup {PyNone}

ParseCall ==
    /\ ppc = "start"
    /\ presult' = parse_llm_json_response(content, possible_keys)
    /\ ppc' = "done"
    /\ UNCHANGED <<content, possible_keys, doc, wrap, fence, fresult>>
    /\ UNCHANGED <<runVars, saveVars, cfgVars>>

\* a second call, on the same content wrapped in a fence opened by tag
ParseFencedCall(tag) ==
    /\ ppc = "done"
    /\ fence = "none"
    /\ content.t = "str"
    /\ fence' = tag
    /\ fresult' = parse_llm_json_response(PyStr(FenceWrap(content.s, tag)), possible_keys)
    /\ UNCHANGED <<content, possible_keys, presult, ppc, doc, wrap>>
    /\ UNCHANGED <<runVars, saveVars, cfgVars>>

ParseNext == ParseCall

ParseSpec == ParseInit /\ [][ParseNext]_vars

-----------------------------------------------------------------------------
(* Specification of the normaliser on fenced content: a call on each       *)
(* input, then a call on the same input wrapped in a fence                 *)

FenceInit ==
    /\ RunIdle
    /\ SaveIdle
    /\ CfgIdle
    /\ possible_keys \in KeyChoices
    /\ presult = NotCalled
    /\ ppc = "start"
    /\ fence = "none"
    /\ fresult = NotCalled
    /\ \/ /\ doc \in FenceDocs
          /\ wrap \in Wraps
          /\ content = PyStr(Render(doc, wrap))
       \/ /\ doc = PyNone
          /\ wrap = "raw"
          /\ content \in {PyStr(s) : s \in RawStrings}

FenceNext ==
    \/ ParseCall
    \/ \E tag \in FenceTags : ParseFencedCall(tag)

FenceSpec == FenceInit /\ [][FenceNext]_vars


-----------------------------------------------------------------------------
(* llm_client.get_completion_params, and the model a generation function   *)
(* passes to the completion endpoint                                       *)

\* str.lower()
LowerText(s) ==
    LET upper == <<"A", "B", "C", "D", "E", "F", "G", "H", "I", "J", "K", "L", "M",
                   "N", "O", "P", "Q", "R", "S", "T", "U", "V", "W", "X", "Y", "Z">>
        lower == <<"a", "b", "c", "d", "e", "f", "g", "h", "i", "j", "k", "l", "m",
                   "n", "o", "p", "q", "r", "s", "t", "u", "v", "w", "x", "y", "z">>
    IN [i \in 1..Len(s) |->
            IF \E k \in 1..26 : upper[k] = s[i]
            THEN lower[CHOOSE k \in 1..26 : upper[k] = s[i]]
            ELSE s[i]]

\* name in text
Contains(text, name) ==
    \E i \in 1..(Len(text) - Len(name) + 1) : SubSeq(text, i, i + Len(name) - 1) = name

\* mutant of get_completion_params: the o3 test does not lower the name
get_completion_params_CaseSensitive(m) ==
    LET without == Literal.models_without_response_format
        budget == IF Contains(m, <<"o", "3">>)
                  THEN <<Pair(Key.max_completion_tokens, PyInt(4000))>>
                  ELSE <<Pair(Key.max_tokens, PyInt(4000)),
                         Pair(Key.temperature, [t |-> "float", tenths |-> 7])>>
    IN IF ~\E k \in 1..Len(without) : Contains(LowerText(m), without[k])
       THEN PyDict(Append(budget, Pair(Key.response_format,
                        PyDict(<<Pair(Key.type, PyStr(Literal.json_object))>>))))
       ELSE PyDict(budget)

\* get_completion_params(model) with the default max_tokens=4000 and
\* temperature=0.7 (a float, kept in tenths)
get_completion_params(m) ==
    LET without == Literal.models_without_response_format
        budget == IF Contains(LowerText(m), <<"o", "3">>)
                  THEN <<Pair(Key.max_completion_tokens, PyInt(4000))>>
                  ELSE <<Pair(Key.max_tokens, PyInt(4000)),
                         Pair(Key.temperature, [t |-> "float", tenths |-> 7])>>
    IN IF ~\E k \in 1..Len(without) : Contains(LowerText(m), without[k])
       THEN PyDict(Append(budget, Pair(Key.response_format,
                        PyDict(<<Pair(Key.type, PyStr(Literal.json_object))>>))))
       ELSE PyDict(budget)

\* the model names get_completion_params is called with
ModelNames ==
    {Literal.o3, Literal.o3_mini, Literal.O3_upper, Literal.gpt4o, Literal.gpt4turbo,
     Literal.claude, Literal.kimi, Literal.deepseek, Literal.DeepSeek_upper,
     Literal.qwen, Literal.moonshot_o3}

\* the model= argument of client.chat.completions.create in generator g
RequestModel(g, env) ==
    CASE g = "substack_about" -> get_default_model(env)
      [] g \in {"substack_article", "substack_readers"} -> Literal.gpt4o
      [] OTHER -> Literal.o3

-----------------------------------------------------------------------------
(* Specification of the configuration functions: each is called once on    *)
(* every environment and model name                                        *)

Call_get_completion_params ==
    /\ params = PyNone
    /\ params' = get_completion_params(model)
    /\ UNCHANGED <<model, checked, client>>
    /\ UNCHANGED <<parseVars, runVars, saveVars>>

Call_check_api_key ==
    /\ checked = "notcalled"
    /\ checked' = IF check_api_key(environ) THEN "True" ELSE "False"
    /\ UNCHANGED <<model, params, client>>
    /\ UNCHANGED <<parseVars, runVars, saveVars>>

\* get_llm_client() with no arguments, after the check, as run_generation
\* and generate_about_page make the two calls
Call_get_llm_client ==
    /\ checked # "notcalled"
    /\ client = "notcalled"
    /\ client' = IF get_llm_client(environ) THEN "client" ELSE "ValueError"
    /\ UNCHANGED <<model, params, checked>>
    /\ UNCHANGED <<parseVars, runVars, saveVars>>

CfgInit ==
    /\ ParseIdle
    /\ SaveIdle
    /\ environ \in Environments
    /\ entry = Idle
    /\ pc = "idle"
    /\ data = PyNone
    /\ log = <<>>
    /\ ret = "none"
    /\ completion = NoCompletion
    /\ files = {}
    /\ model \in ModelNames
    /\ params = PyNone
    /\ checked = "notcalled"
    /\ client = "notcalled"

CfgNext ==
    \/ Call_get_completion_params
    \/ Call_check_api_key
    \/ Call_get_llm_client

ConfigSpec == CfgInit /\ [][CfgNext]_vars

-----------------------------------------------------------------------------
(* Persistence: utils.save_output and the generators' save functions, the  *)
(* moves of the HTTP handlers, GET /api/outputs and /api/outputs/{name}    *)

MaxTicks == 2
MaxSaves == 2

\* datetime.now().strftime("%Y%m%d_%H%M%S"), the clock reading t whole
\* seconds after 2025-01-01 00:00:58
strftime(t) ==
    LET pad2(n) == IF n < 10 THEN <<"0">> \o IntToChars(n) ELSE IntToChars(n)
    IN <<"2", "0", "2", "5", "0", "1", "0", "1", "_", "0", "0">>
            \o pad2((58 + t) \div 60) \o pad2((58 + t) % 60)

\* datetime.now().isoformat() on a whole second
isoformat(t) ==
    LET pad2(n) == IF n < 10 THEN <<"0">> \o IntToChars(n) ELSE IntToChars(n)
    IN <<"2", "0", "2", "5", "-", "0", "1", "-", "0", "1", "T", "0", "0", ":">>
            \o pad2((58 + t) \div 60) \o <<":">> \o pad2((58 + t) % 60)

RECURSIVE JoinWith(_, _)
JoinWith(parts, sep) ==
    IF parts = <<>> THEN <<>>
    ELSE IF Len(parts) = 1 THEN parts[1]
    ELSE parts[1] \o sep \o JoinWith(Tail(parts), sep)

\* json.dump(data, f, indent=2, ensure_ascii=False): the text written
RECURSIVE DumpsIndent(_, _)
DumpsIndent(v, level) ==
    LET pad(n) == [i \in 1..(2 * n) |-> " "]
        block(open, parts, close) ==
            <<open, NL>> \o pad(level + 1)
                \o JoinWith(parts, <<",", NL>> \o pad(level + 1))
                \o <<NL>> \o pad(level) \o <<close>>
    IN CASE v.t = "list" ->
                IF v.items = <<>> THEN <<"[", "]">>
                ELSE block("[", [i \in 1..Len(v.items) |->
                                    DumpsIndent(v.items[i], level + 1)], "]")
         [] v.t = "dict" ->
                IF v.pairs = <<>> THEN <<"{", "}">>
                ELSE block("{", [i \in 1..Len(v.pairs) |->
                                    <<Quote>> \o v.pairs[i].k \o <<Quote, ":", " ">>
                                        \o DumpsIndent(v.pairs[i].v, level + 1)], "}")
         [] OTHER -> Dumps(v)

\* the prefixes, output_format selectors and results of the persistence calls
SaveInputs ==
    [prefix |-> {Literal.about_page, Literal.wizard_demographics},
     output_format |-> {"markdown", "json", "text"},
     data |-> {ListResult("twitter_wizard", PyList(<<Rec1, PyDict(<<>>)>>))}]

\* mutant of save_output: the timestamp is taken from the result's
\* generated_at, the clock is not read
save_output_GeneratedAt(d, prefix, output_format, now) ==
    LET iso == DictGet(d, Key.generated_at).s
        timestamp == SubSeq(iso, 1, 4) \o SubSeq(iso, 6, 7) \o SubSeq(iso, 9, 10) \o <<"_">>
                        \o SubSeq(iso, 12, 13) \o SubSeq(iso, 15, 16) \o SubSeq(iso, 18, 19)
    IN IF output_format = "json"
       THEN [filename |-> prefix \o <<"_">> \o timestamp \o <<".", "j", "s", "o", "n">>,
             body |-> [kind |-> "json", text |-> DumpsIndent(d, 0), of |-> PyNone],
             format_markdown |-> 0]
       ELSE [filename |-> prefix \o <<"_">> \o timestamp \o <<".", "m", "d">>,
             body |-> [kind |-> "markdown", text |-> <<>>, of |-> d],
             format_markdown |-> 1]

\* mutant of save_output: every selector but markdown writes JSON
save_output_MarkdownOnly(d, prefix, output_format, now) ==
    LET timestamp == strftime(now)
    IN IF output_format # "markdown"
       THEN [filename |-> prefix \o <<"_">> \o timestamp \o <<".", "j", "s", "o", "n">>,
             body |-> [kind |-> "json", text |-> DumpsIndent(d, 0), of |-> PyNone],
             format_markdown |-> 0]
       ELSE [filename |-> prefix \o <<"_">> \o timestamp \o <<".", "m", "d">>,
             body |-> [kind |-> "markdown", text |-> <<>>, of |-> d],
             format_markdown |-> 1]

\* mutant of save_output: the timestamp stops at the minute
save_output_MinuteStamp(d, prefix, output_format, now) ==
    LET timestamp == SubSeq(strftime(now), 1, 13)
    IN IF output_format = "json"
       THEN [filename |-> prefix \o <<"_">> \o timestamp \o <<".", "j", "s", "o", "n">>,
             body |-> [kind |-> "json", text |-> DumpsIndent(d, 0), of |-> PyNone],
             format_markdown |-> 0]
       ELSE [filename |-> prefix \o <<"_">> \o timestamp \o <<".", "m", "d">>,
             body |-> [kind |-> "markdown", text |-> <<>>, of |-> d],
             format_markdown |-> 1]

\* save_output(data, prefix, format_markdown, output_format) at the clock
\* reading now: the file name, what is written, and the number of calls of
\* format_markdown; a markdown body is whatever format_markdown(data, f) wrote
save_output(d, prefix, output_format, now) ==
    LET timestamp == strftime(now)
    IN IF output_format = "json"
       THEN [filename |-> prefix \o <<"_">> \o timestamp \o <<".", "j", "s", "o", "n">>,
             body |-> [kind |-> "json", text |-> DumpsIndent(d, 0), of |-> PyNone],
             format_markdown |-> 0]
       ELSE [filename |-> prefix \o <<"_">> \o timestamp \o <<".", "m", "d">>,
             body |-> [kind |-> "markdown", text |-> <<>>, of |-> d],
             format_markdown |-> 1]

\* a second passes
Clock_Tick ==
    /\ clock < MaxTicks
    /\ clock' = clock + 1
    /\ UNCHANGED <<result, gentime, saved, disk, answer>>
    /\ UNCHANGED <<parseVars, runVars, cfgVars>>

\* a generation function returns a result: "generated_at": datetime.now().isoformat()
Save_Generate ==
    /\ Len(saved) < MaxSaves
    /\ \E d \in SaveInputs.data :
         result' = PyDict(DictSet(d.pairs, Key.generated_at, PyStr(isoformat(clock))))
    /\ gentime' = clock
    /\ UNCHANGED <<clock, saved, disk, answer>>
    /\ UNCHANGED <<parseVars, runVars, cfgVars>>

\* one persistence call on the result; open(filename, "w") creates or
\* truncates the file, and when the write raises (ok is FALSE) the file is
\* left unfinished and nothing is returned
Save_Call(prefix, output_format, ok) ==
    /\ result # PyNone
    /\ Len(saved) < MaxSaves
    /\ LET out == save_output(result, prefix, output_format, clock)
           body == IF ok THEN out.body
                   ELSE [kind |-> "unfinished", text |-> <<>>, of |-> PyNone]
       IN /\ disk' = {f \in disk : ~(f.dir = "cwd" /\ f.name = out.filename)}
                        \cup {[dir |-> "cwd", name |-> out.filename, body |-> body]}
          /\ saved' = Append(saved,
                [prefix |-> prefix, output_format |-> output_format, now |-> clock,
                 data |-> result, generated |-> gentime, ok |-> ok,
                 filename |-> out.filename, body |-> body,
                 format_markdown |-> out.format_markdown,
                 returned |-> IF ok THEN out.filename ELSE <<>>,
                 existed |-> \E f \in disk : f.dir = "cwd" /\ f.name = out.filename])
    /\ UNCHANGED <<clock, result, gentime, answer>>
    /\ UNCHANGED <<parseVars, runVars, cfgVars>>

\* shutil.move(md_file, md_dest) and shutil.move(json_file, json_dest) of the
\* POST handlers: a file a save returned goes to outputs/ under its name,
\* replacing the file of that name there
Http_Move ==
    /\ \E i \in 1..Len(saved) : \E f \in disk :
         /\ saved[i].ok
         /\ f.dir = "cwd" /\ f.name = saved[i].returned
         /\ disk' = {g \in disk : g # f /\ ~(g.dir = "outputs" /\ g.name = f.name)}
                        \cup {[f EXCEPT !.dir = "outputs"]}
    /\ UNCHANGED <<clock, result, gentime, saved, answer>>
    /\ UNCHANGED <<parseVars, runVars, cfgVars>>

\* GET /api/outputs
list_outputs ==
    /\ answer' = [op |-> "list", status |-> "200",
                  names |-> {f.name : f \in {g \in disk : g.dir = "outputs"}},
                  body |-> PyNone]
    /\ UNCHANGED <<clock, result, gentime, saved, disk>>
    /\ UNCHANGED <<parseVars, runVars, cfgVars>>

\* GET /api/outputs/{filename}
download_output ==
    /\ \E i \in 1..Len(saved) :
         LET hits == {f \in disk : f.dir = "outputs" /\ f.name = saved[i].filename}
         IN answer' = IF hits = {}
                      THEN [op |-> "download", status |-> "404", names |-> {}, body |-> PyNone]
                      ELSE [op |-> "download", status |-> "200",
                            names |-> {saved[i].filename},
                            body |-> (CHOOSE f \in hits : TRUE).body]
    /\ UNCHANGED <<clock, result, gentime, saved, disk>>
    /\ UNCHANGED <<parseVars, runVars, cfgVars>>

SaveInit ==
    /\ ParseIdle
    /\ RunIdle
    /\ CfgIdle
    /\ SaveIdle

SaveNext ==
    \/ Clock_Tick
    \/ Save_Generate
    \/ \E prefix \in SaveInputs.prefix, output_format \in SaveInputs.output_format :
            Save_Call(prefix, output_format, TRUE)
    \/ Save_Call(Literal.about_page, "markdown", FALSE)

SaveSpec == SaveInit /\ [][SaveNext]_vars

\* the artifacts of one generator under the requests of the HTTP interface:
\* the saves are those of POST /api/generate, which return
OutputsNext ==
    \/ Clock_Tick
    \/ Save_Generate
    \/ \E output_format \in {"markdown", "json"} :
            Save_Call(Literal.wizard_demographics, output_format, TRUE)
    \/ Http_Move
    \/ list_outputs
    \/ download_output

OutputsSpec == SaveInit /\ [][OutputsNext]_vars


-----------------------------------------------------------------------------
(* Properties of run_generation and of the credential gate *)

InRunGeneration == entry.fn = "run_generation"

\* the generation function returned (did not raise) a value of this truthiness
GenerateReturned(truthy) ==
    \E i \in 1..Len(log) :
        log[i].op = "generate" /\ log[i].ok /\ Truthy(log[i].arg) = truthy

\* C1: in run_generation, when check_api_key() returns False the call
\* returns False and neither generate_func nor save_func is ever invoked.
C1_NoCredentialNoCalls ==
    (InRunGeneration /\ ~check_api_key(environ)) =>
        /\ Calls("generate") = <<>>
        /\ Calls("save") = <<>>
        /\ pc # "check" => (pc = "done" /\ ret = "False" /\ log = <<CheckEv(FALSE)>>)

C1_Witness ==
    /\ InRunGeneration /\ pc = "done" /\ ret = "False"
    /\ Lower(Getenv(environ.LLM_PROVIDER, "openai")) = "openrouter"
    /\ environ.OPENROUTER_API_KEY = Unset /\ environ.OPENAI_API_KEY = "sk-1"
    /\ log = <<CheckEv(FALSE)>>

\* C2: in run_generation, when the credential check passed and generate_func
\* returned a falsy value, generate_func was invoked exactly once, save_func
\* is never invoked and the call returns False.
C2_FalsyResultNoSave ==
    (InRunGeneration /\ GenerateReturned(FALSE)) =>
        /\ Len(Calls("generate")) = 1
        /\ Calls("save") = <<>>
        /\ pc = "done" /\ ret = "False"

C2_Witness ==
    /\ InRunGeneration /\ pc = "done" /\ ret = "False"
    /\ log = <<CheckEv(TRUE), GenEv(GenReturned(PyDict(<<>>)))>>

\* the calls of a successful run on result d, in order
SuccessfulRun(d) ==
    <<CheckEv(TRUE), GenEv(GenReturned(d)),
      SaveEv(d, "markdown", TRUE), SaveEv(d, "json", TRUE)>>

\* C3: in run_generation, when generate_func returned a truthy result the
\* calls happen in the order generate (once), save_func(result, markdown),
\* save_func(result, json), return True: both saves get the object
\* generate_func returned, and True is returned only after both completed.
C3_GenerateThenSaveTwice ==
    (InRunGeneration /\ GenerateReturned(TRUE)) =>
        LET d == Calls("generate")[1].arg
            n == Len(log)
        IN /\ n <= 4
           /\ \A i \in 1..n :
                /\ log[i].op = SuccessfulRun(d)[i].op
                /\ log[i].fmt = SuccessfulRun(d)[i].fmt
                /\ log[i].arg = SuccessfulRun(d)[i].arg
           /\ ret = "True" <=> (pc = "done" /\ log = SuccessfulRun(d))
           /\ pc = "done" => ret \in {"True", "raised"}
           /\ ret = "raised" => ~log[n].ok

C3_Witness ==
    /\ InRunGeneration /\ pc = "done" /\ ret = "True"
    /\ log = SuccessfulRun(GenResult(2))

\* C4: on every path that invokes a generation function (run_generation,
\* the generators' main(), POST /api/generate, POST /api/article/generate)
\* the generation function is called only after a credential check that
\* passed.
C4_CredentialGateEverywhere ==
    \A i \in 1..Len(log) :
        log[i].op = "generate" =>
            \E j \in 1..(i - 1) : log[j].op = "check" /\ log[j].ok

-----------------------------------------------------------------------------
(* Properties of the generation functions and of persistence *)

\* the generation call of this run was made: log[i] is its event
GenerateCalledAt(i) == i \in 1..Len(log) /\ log[i].op = "generate"

\* what the normaliser makes of the completion with the generator's keys
NormalizerView == parse_llm_json_response(completion, PyList(GenKeys(entry.g)))

NormalizerSucceeds == NormalizerView.raised = "none" /\ NormalizerView.error = PyNone

\* C16: each list generator treats the completion text as the normaliser
\* does with that generator's candidate keys: where parse_llm_json_response
\* succeeds on the text (fenced or not) the generation function succeeds
\* with the same item list, and where it fails the generation function fails.
C16_GeneratorsRefineNormalizer ==
    \A i \in 1..Len(log) :
        (GenerateCalledAt(i) /\ entry.g \in GENERATORS /\ completion.t = "str") =>
            IF NormalizerSucceeds
            THEN /\ log[i].ok
                 /\ log[i].arg.t = "dict"
                 /\ DictHas(log[i].arg, ItemsKey(entry.g))
                 /\ DictGet(log[i].arg, ItemsKey(entry.g)) = NormalizerView.items
            ELSE ~(log[i].ok /\ Truthy(log[i].arg))

\* the completion endpoint returned no text
NoText == completion \in {PyNone, PyStr(<<>>)}

\* the generation function returned a failure value and nothing was saved
ReportedFailure(i) ==
    /\ log[i].ok
    /\ ~Truthy(log[i].arg)
    /\ Calls("save") = <<>>

\* C17: for every generation function, when the completion endpoint returns
\* no text (None or the empty string) the generation function reports
\* failure with a failure value and no persistence call is made in the run.
C17_NoTextIsFailure ==
    \A i \in 1..Len(log) :
        (GenerateCalledAt(i) /\ NoText) => ReportedFailure(i)

\* the completion is JSON for a value that is neither a list nor a mapping
ScalarCompletion ==
    /\ completion.t = "str"
    /\ parse_llm_json_response(completion, PyNone).parsed
    /\ parse_llm_json_response(completion, PyNone).data.t \notin {"list", "dict"}

\* C18: for every generation function that parses its completion, a
\* completion whose JSON is neither a list nor a mapping is a generation
\* failure: a failure value is returned (no result built from the scalar)
\* and nothing is persisted.
C18_ScalarIsFailure ==
    \A i \in 1..Len(log) :
        (GenerateCalledAt(i) /\ entry.g # "substack_article" /\ ScalarCompletion) =>
            ReportedFailure(i)

SaveCalled(fmt) == \E i \in 1..Len(log) : log[i].op = "save" /\ log[i].fmt = fmt

SaveFailed(fmt) ==
    \E i \in 1..Len(log) : log[i].op = "save" /\ log[i].fmt = fmt /\ ~log[i].ok

\* the artifact of this format was written by a save that returned
WrittenWhole(fmt) == \E f \in files : f.fmt = fmt /\ f.whole

\* a file of this format exists, finished or not
Exists(fmt) == \E f \in files : f.fmt = fmt

\* C19: run_generation neither catches nor rolls back a persistence
\* failure: when the markdown save raises the exception propagates (no True
\* or False is returned) and the JSON save is never made; when the JSON save
\* raises the exception propagates and the markdown artifact already written
\* stays in place.
C19_SaveFailurePropagates ==
    InRunGeneration =>
        /\ SaveFailed("markdown") =>
                (pc = "done" /\ ret = "raised" /\ ~SaveCalled("json"))
        /\ SaveFailed("json") =>
                (pc = "done" /\ ret = "raised" /\ Artifact("markdown", "cwd", TRUE) \in files)

C19_Witness ==
    /\ InRunGeneration /\ pc = "done" /\ ret = "raised"
    /\ log = <<CheckEv(TRUE), GenEv(GenReturned(GenResult(2))),
               SaveEv(GenResult(2), "markdown", TRUE), SaveEv(GenResult(2), "json", FALSE)>>
    /\ files = {Artifact("markdown", "cwd", TRUE), Artifact("json", "cwd", FALSE)}

\* a run ended by a save call that raised
PersistenceFailed == pc = "done" /\ (SaveFailed("markdown") \/ SaveFailed("json"))

\* C20: after a persistence failure in a run both partial outcomes occur:
\* a failed JSON save leaves the markdown artifact written and the JSON
\* artifact absent, and a failed markdown save leaves the JSON artifact
\* written and the markdown artifact absent.
C20_BothPartialOutcomes ==
    PersistenceFailed =>
        /\ SaveFailed("json") => (WrittenWhole("markdown") /\ ~WrittenWhole("json"))
        /\ SaveFailed("markdown") => (WrittenWhole("json") /\ ~WrittenWhole("markdown"))

\* C20 as amended: after a persistence failure only one partial outcome
\* occurs, the markdown artifact written with the JSON artifact absent; no
\* JSON file exists in a run whose markdown artifact was not written.
C20_OnlyMarkdownWithoutJson ==
    /\ Exists("json") => WrittenWhole("markdown")
    /\ PersistenceFailed =>
            /\ ~WrittenWhole("json")
            /\ SaveFailed("json") => WrittenWhole("markdown")
            /\ SaveFailed("markdown") => ~Exists("json")

C20_Witness ==
    /\ InRunGeneration /\ PersistenceFailed /\ SaveFailed("json")
    /\ files = {Artifact("markdown", "cwd", TRUE)}

-----------------------------------------------------------------------------
(* Properties of parse_llm_json_response *)

Called == ppc = "done"

\* the candidate keys the call works with
EffectiveKeys ==
    IF possible_keys.t = "NoneType" THEN DefaultPossibleKeys ELSE possible_keys.items

ParsedDict == Called /\ presult.parsed /\ presult.data.t = "dict"

HasCandidateKey ==
    \E i \in 1..Len(EffectiveKeys) : DictHas(presult.data, EffectiveKeys[i])

HasListField ==
    \E i \in 1..Len(presult.data.pairs) : presult.data.pairs[i].v.t = "list"

\* C5: for every string content and every possible_keys the call returns
\* either (items, None) with items a list, or (None, error) with error a
\* non-empty string; it never raises.
C5_TwoValuedOutcome ==
    (Called /\ content.t = "str") =>
        /\ presult.raised = "none"
        /\ \/ presult.items.t = "list" /\ presult.error = PyNone
           \/ /\ presult.items = PyNone
              /\ presult.error.t = "str"
              /\ presult.error # PyNone
              /\ presult.error.prefix # ""

\* C6: for every JSON array A, the call on the serialization of A returns
\* (A, None), whatever possible_keys is.
C6_ArrayRoundTrip ==
    (Called /\ wrap = "plain" /\ doc.t = "list") =>
        /\ presult.raised = "none"
        /\ presult.items = doc
        /\ presult.error = PyNone

C6_Witness ==
    /\ Called /\ wrap = "plain"
    /\ doc = PyList(<<Rec2, Rec1>>)
    /\ content = PyStr(Dumps(doc))
    /\ possible_keys = PyList(<<Key.x, Key.data>>)
    /\ presult.items = PyList(<<Rec2, Rec1>>)

\* C7: for a parsed mapping holding at least one key of possible_keys, the
\* call returns the value under the first key, in possible_keys order, that
\* the mapping holds.
C7_FirstCandidateKeyWins ==
    (ParsedDict /\ HasCandidateKey) =>
        \E i \in 1..Len(EffectiveKeys) :
            /\ DictHas(presult.data, EffectiveKeys[i])
            /\ \A j \in 1..(i - 1) : ~DictHas(presult.data, EffectiveKeys[j])
            /\ presult.items = DictGet(presult.data, EffectiveKeys[i])
            /\ presult.error = PyNone

C7_Witness ==
    /\ Called /\ possible_keys = PyNone
    /\ presult.data = PyDict(<<Pair(Key.data, PyList(<<Rec1>>)), Pair(Key.items, PyList(<<>>))>>)
    /\ presult.items = PyList(<<>>)

\* C8: for a parsed mapping holding none of possible_keys (the default keys
\* when possible_keys is omitted) and at least one list-valued field, the
\* call returns the first list-valued value in insertion order.
C8_FirstListValuedField ==
    (ParsedDict /\ ~HasCandidateKey /\ HasListField) =>
        \E i \in 1..Len(presult.data.pairs) :
            /\ presult.data.pairs[i].v.t = "list"
            /\ \A j \in 1..(i - 1) : presult.data.pairs[j].v.t # "list"
            /\ presult.items = presult.data.pairs[i].v
            /\ presult.error = PyNone

C8_Witness ==
    /\ Called /\ possible_keys = PyNone
    /\ presult.data = PyDict(<<Pair(Key.x, PyInt(1)), Pair(Key.y, PyList(<<Rec1>>))>>)
    /\ presult.items = PyList(<<Rec1>>)

\* C9: for a parsed mapping with no key of possible_keys and no list-valued
\* field, the call returns a one-element list holding that mapping, and no
\* error.
C9_SingleObjectWrapped ==
    (ParsedDict /\ ~HasCandidateKey /\ ~HasListField) =>
        /\ presult.items = PyList(<<presult.data>>)
        /\ presult.error = PyNone

C9_Witness ==
    /\ Called /\ possible_keys = PyList(<<Key.items>>)
    /\ presult.data = PyDict(<<Pair(Key.x, PyInt(1)), Pair(Key.data, Rec1)>>)
    /\ presult.items = PyList(<<presult.data>>)

\* C10: when the cleaned content parses to a value that is neither a list
\* nor a mapping, the call returns no items and an error naming the type.
C10_ScalarIsError ==
    (Called /\ presult.parsed /\ presult.data.t \notin {"list", "dict"}) =>
        /\ presult.items = PyNone
        /\ presult.error.t = "str"
        /\ presult.error.prefix = "Unexpected response type: "
        /\ presult.error.typename = presult.data.t

C10_Witness ==
    /\ Called /\ wrap = "fencejson" /\ doc = PyInt(12)
    /\ presult.parsed /\ presult.data = PyInt(12)
    /\ presult.items = PyNone
    /\ presult.error.typename = "int"

\* the second call, on the fence-wrapped content, has been made
FencedCalled == Called /\ fence # "none"

\* both calls returned the same pair, or raised the same exception
SameOutcome ==
    /\ fresult.raised = presult.raised
    /\ fresult.items = presult.items
    /\ fresult.error = presult.error

\* C11: fence transparency: for every content c and every possible_keys,
\* the call on c wrapped in a fence (an opening line of three backticks, or
\* of three backticks followed by json, then c, then a closing line of three
\* backticks) gives the same result as the call on c.
C11_FenceTransparency ==
    FencedCalled => SameOutcome

\* C11 as amended: fence transparency for every content c whose trimmed
\* form does not itself begin with three backticks.
C11_FenceTransparencyOfUnfenced ==
    (FencedCalled /\ ~StartsWith(Strip(content.s), Fence)) => SameOutcome

C11_Witness ==
    /\ FencedCalled /\ fence = "json" /\ wrap = "plain"
    /\ doc = PyDict(<<Pair(Key.items, PyList(<<Rec1>>))>>)
    /\ possible_keys = PyNone
    /\ fresult.cleaned = Dumps(doc)
    /\ fresult.items = PyList(<<Rec1>>)
    /\ presult.items = PyList(<<Rec1>>)

\* clean_json_response was applied to a string
CleanCalled == Called /\ content.t = "str"

Trimmed == Strip(content.s)

NewlinesOf(s) == {i \in 1..Len(s) : s[i] = NL}

LastLine(s) ==
    IF NewlinesOf(s) = {} THEN s ELSE SubSeq(s, Max(NewlinesOf(s)) + 1, Len(s))

\* s without its first line, and without its last line when dropLast
FenceBody(s, dropLast) ==
    IF NewlinesOf(s) = {} THEN <<>>
    ELSE IF dropLast
         THEN SubSeq(s, Min(NewlinesOf(s)) + 1, Max(NewlinesOf(s)) - 1)
         ELSE SubSeq(s, Min(NewlinesOf(s)) + 1, Len(s))

\* C12: on content whose trimmed form does not begin with three backticks,
\* clean_json_response returns exactly the trimmed content and is idempotent
\* there; on content that does, it removes the whole first line, and removes
\* the last line only if that line is exactly three backticks.
C12_CleanJsonResponse ==
    CleanCalled =>
        IF ~StartsWith(Trimmed, Fence)
        THEN /\ presult.cleaned = Trimmed
             /\ clean_json_response(PyStr(presult.cleaned)).s = presult.cleaned
        ELSE presult.cleaned = Strip(FenceBody(Trimmed, LastLine(Trimmed) = Fence))

\* C12 as amended: the last line is removed exactly when that line, once
\* trimmed of surrounding whitespace, is three backticks; what is left is
\* returned trimmed.
C12_CleanJsonResponseTrimmedClose ==
    CleanCalled =>
        IF ~StartsWith(Trimmed, Fence)
        THEN /\ presult.cleaned = Trimmed
             /\ clean_json_response(PyStr(presult.cleaned)).s = presult.cleaned
        ELSE presult.cleaned = Strip(FenceBody(Trimmed, Strip(LastLine(Trimmed)) = Fence))

C12_Witness ==
    /\ CleanCalled /\ wrap = "indentclose" /\ doc = PyList(<<PyInt(1)>>)
    /\ LastLine(Trimmed) = <<" ">> \o Fence
    /\ presult.cleaned = <<"[", "1", "]">>
    /\ presult.items = doc

\* C13: for content that is the empty string or None the call returns
\* (None, error) where the preview in error is the marker (empty); it does
\* not raise.
C13_EmptyContentIsError ==
    (Called /\ content \in {PyNone, PyStr(<<>>)}) =>
        /\ presult.raised = "none"
        /\ presult.items = PyNone
        /\ presult.error.t = "str"
        /\ presult.error.preview = EmptyMarker

\* json.loads raised JSONDecodeError on the cleaned content
MalformedAfterCleaning == Called /\ presult.raised = "none" /\ ~presult.parsed

ParseErrorWithMessage ==
    /\ presult.items = PyNone
    /\ presult.error.t = "str"
    /\ presult.error.prefix = "JSON parse error: "
    /\ presult.error.e = Loads(presult.cleaned).msg
    /\ presult.error.e # ""

\* C14: for content that is not valid JSON after fence stripping the call
\* returns (None, error) where error holds the parser's message and a
\* preview that is the first min(500, length) characters of the cleaned
\* content, never more than 500.
C14_PreviewIsPrefix ==
    MalformedAfterCleaning =>
        /\ ParseErrorWithMessage
        /\ Len(presult.error.preview) <= PreviewLen
        /\ presult.error.preview =
                SubSeq(presult.cleaned, 1, Min({PreviewLen, Len(presult.cleaned)}))

\* C14 as amended: the preview is that prefix when the cleaned content is
\* not empty, and the marker (empty) when it is empty.
C14_PreviewIsPrefixOrMarker ==
    MalformedAfterCleaning =>
        /\ ParseErrorWithMessage
        /\ Len(presult.error.preview) <= PreviewLen
        /\ presult.error.preview =
                IF presult.cleaned = <<>> THEN EmptyMarker
                ELSE SubSeq(presult.cleaned, 1, Min({PreviewLen, Len(presult.cleaned)}))

C14_Witness ==
    /\ MalformedAfterCleaning
    /\ content = PyStr(LongText(PreviewLen + 1))
    /\ Len(presult.cleaned) = PreviewLen + 1
    /\ presult.error.preview = LongText(PreviewLen)

\* C15: every element of an item list the call returns successfully is a
\* mapping; a list holding a non-mapping element is never returned as a
\* successful result.
C15_ItemsAreMappings ==
    (Called /\ presult.raised = "none" /\ presult.error = PyNone
        /\ presult.items.t = "list") =>
        \A i \in 1..Len(presult.items.items) : presult.items.items[i].t = "dict"

-----------------------------------------------------------------------------
(* Properties of persistence *)

\* the file name extension the selector asks for
Extension(output_format) ==
    IF output_format = "json" THEN <<".", "j", "s", "o", "n">> ELSE <<".", "m", "d">>

\* the file in the working directory under the name call i wrote to
FileOf(i) == {f \in disk : f.dir = "cwd" /\ f.name = saved[i].filename}

\* C21: save_output names the artifact prefix + "_" + timestamp + extension,
\* the extension being .json exactly when output_format equals "json" and
\* .md for every other selector value; the JSON branch serializes the whole
\* data mapping and never calls format_markdown, the other branch calls
\* format_markdown exactly once with the data and the open file; the value
\* returned is the name of the file written.
C21_SaveOutputContract ==
    \A i \in 1..Len(saved) :
        saved[i].ok =>
            /\ saved[i].filename =
                    saved[i].prefix \o <<"_">> \o strftime(saved[i].now)
                        \o Extension(saved[i].output_format)
            /\ saved[i].output_format = "json" =>
                    /\ saved[i].format_markdown = 0
                    /\ saved[i].body.kind = "json"
                    /\ Loads(saved[i].body.text).ok
                    /\ Loads(saved[i].body.text).val = saved[i].data
            /\ saved[i].output_format # "json" =>
                    /\ saved[i].format_markdown = 1
                    /\ saved[i].body = [kind |-> "markdown", text |-> <<>>, of |-> saved[i].data]
            /\ saved[i].returned = saved[i].filename
            /\ FileOf(i) # {}
            /\ i = Len(saved) => FileOf(i) = {[dir |-> "cwd", name |-> saved[i].returned,
                                               body |-> saved[i].body]}

C21_Witness ==
    /\ Len(saved) = 2
    /\ saved[1].ok /\ saved[1].output_format = "text" /\ saved[1].now = 1
    /\ saved[1].returned = <<"a", "b", "o", "u", "t", "_", "p", "a", "g", "e", "_", "2", "0", "2", "5", "0", "1", "0", "1", "_", "0", "0", "0", "0", "5", "9", ".", "m", "d">>
    /\ saved[1].format_markdown = 1
    /\ saved[2].ok /\ saved[2].output_format = "json" /\ saved[2].now = 2
    /\ saved[2].returned = <<"w", "i", "z", "a", "r", "d", "_", "d", "e", "m", "o", "g", "r", "a", "p", "h", "i", "c", "s", "_", "2", "0", "2", "5", "0", "1", "0", "1", "_", "0", "0", "0", "1", "0", "0", ".", "j", "s", "o", "n">>
    /\ saved[2].format_markdown = 0
    /\ SubSeq(saved[2].body.text, 1, 7) = <<"{", NL, " ", " ", Quote, "g", "e">>

\* the digits of a timestamp, whatever its punctuation
DigitsOf(text) == SelectSeq(text, LAMBDA c : c \in Digits)

\* the timestamp in the file name of call i
StampOf(i) ==
    SubSeq(saved[i].filename, Len(saved[i].prefix) + 2, Len(saved[i].prefix) + 16)

C23_ArtifactsNeverTouched ==
    \A i \in 1..Len(saved) :
        saved[i].ok =>
            [dir |-> "cwd", name |-> saved[i].filename, body |-> saved[i].body] \in disk

SameSecond(i, j) == saved[i].now = saved[j].now
SamePrefix(i, j) == saved[i].prefix = saved[j].prefix
SameName(i, j) == saved[i].filename = saved[j].filename

\* the second of two calls replaced the file of the first, and returned as
\* any call does
Overwrote(i, j) ==
    /\ saved[j].existed
    /\ saved[j].ok => saved[j].returned = saved[i].filename
    /\ j = Len(saved) => FileOf(i) = {[dir |-> "cwd", name |-> saved[i].filename,
                                       body |-> saved[j].body]}

\* C24: two persistence calls with the same prefix and the same output
\* format whose clock readings fall in the same second produce the same file
\* name, and the second call overwrites the first artifact without any error
\* or detection; calls in different seconds, or with different prefixes or
\* formats, never produce the same file name.
C24_CollisionOnlySameFormat ==
    \A i, j \in 1..Len(saved) :
        i < j =>
            IF SameSecond(i, j) /\ SamePrefix(i, j)
                    /\ saved[i].output_format = saved[j].output_format
            THEN SameName(i, j) /\ Overwrote(i, j)
            ELSE ~SameName(i, j)

\* C24 as amended: the calls collide exactly when they have the same
\* second, the same prefix and the same extension, that is when both
\* selectors are "json" or neither is.
C24_CollisionOnlySameExtension ==
    \A i, j \in 1..Len(saved) :
        i < j =>
            IF SameSecond(i, j) /\ SamePrefix(i, j)
                    /\ Extension(saved[i].output_format) = Extension(saved[j].output_format)
            THEN SameName(i, j) /\ Overwrote(i, j)
            ELSE ~SameName(i, j)

C24_Witness ==
    /\ Len(saved) = 2
    /\ SameSecond(1, 2) /\ SamePrefix(1, 2)
    /\ saved[1].output_format = "json" /\ saved[2].output_format = "json"
    /\ saved[1].ok /\ saved[2].ok
    /\ saved[1].data # saved[2].data
    /\ saved[2].existed
    /\ disk = {[dir |-> "cwd", name |-> saved[1].filename, body |-> saved[2].body]}


-----------------------------------------------------------------------------
(* Properties of generation results *)

\* generators of this repository, whose request and result are modelled
RepositoryGenerator == entry.g \in GENERATORS \cup {"substack_about", "substack_article"}

\* C25: every GenerationResult a generation function returns carries
\* generated_at, the time of the generation, and model_used, the model
\* identifier passed to the completion endpoint in that call, whatever the
\* completion holds.
C25_ResultCarriesStampAndModel ==
    \A i \in 1..Len(log) :
        (log[i].op = "generate" /\ log[i].ok /\ log[i].arg.t = "dict"
            /\ RepositoryGenerator) =>
            /\ DictHas(log[i].arg, Key.generated_at)
            /\ DictGet(log[i].arg, Key.generated_at) = PyStr(NowIso)
            /\ DictHas(log[i].arg, Key.model_used)
            /\ DictGet(log[i].arg, Key.model_used) = PyStr(RequestModel(entry.g, environ))

-----------------------------------------------------------------------------
(* Properties of the configuration functions *)

SameLetter(a, b) == LowerText(<<a>>) = LowerText(<<b>>)

\* name occurs in text, letters compared without regard to case
ContainsIgnoringCase(text, name) ==
    \E i \in 1..(Len(text) - Len(name) + 1) :
        \A k \in 1..Len(name) : SameLetter(text[i + k - 1], name[k])

NamesO3 == ContainsIgnoringCase(model, <<"o", "3">>)

NamesModelWithoutHint ==
    \/ ContainsIgnoringCase(model, <<"m", "o", "o", "n", "s", "h", "o", "t">>)
    \/ ContainsIgnoringCase(model, <<"k", "i", "m", "i">>)
    \/ ContainsIgnoringCase(model, <<"d", "e", "e", "p", "s", "e", "e", "k">>)
    \/ ContainsIgnoringCase(model, <<"q", "w", "e", "n">>)

\* C26: get_completion_params returns exactly one token-budget parameter:
\* max_completion_tokens and no temperature for a model name containing o3
\* in any case, max_tokens and temperature and no max_completion_tokens for
\* every other name; the response_format json_object hint is present
\* exactly when the name contains none of moonshot, kimi, deepseek, qwen.
C26_CompletionParams ==
    params # PyNone =>
        /\ params.t = "dict"
        /\ DictKeys(params) \subseteq
                {Key.max_completion_tokens, Key.max_tokens, Key.temperature,
                 Key.response_format}
        /\ IF NamesO3
           THEN /\ DictHas(params, Key.max_completion_tokens)
                /\ ~DictHas(params, Key.max_tokens)
                /\ ~DictHas(params, Key.temperature)
           ELSE /\ DictHas(params, Key.max_tokens)
                /\ DictHas(params, Key.temperature)
                /\ ~DictHas(params, Key.max_completion_tokens)
        /\ DictHas(params, Key.response_format) <=> ~NamesModelWithoutHint
        /\ DictHas(params, Key.response_format) =>
                DictGet(params, Key.response_format)
                    = PyDict(<<Pair(Key.type, PyStr(Literal.json_object))>>)

\* an o3 name written in capitals, and a name that is both o3 and moonshot
C26_Witness ==
    \/ /\ model = Literal.O3_upper
       /\ params # PyNone
       /\ DictKeys(params) = {Key.max_completion_tokens, Key.response_format}
    \/ /\ model = Literal.moonshot_o3
       /\ params # PyNone
       /\ DictKeys(params) = {Key.max_completion_tokens}

\* the credential check_api_key selects: LLM_PROVIDER names openrouter in
\* any case, or anything else (unset included)
SelectsOpenRouter == environ.LLM_PROVIDER \in {"openrouter", "OpenRouter"}

SelectedKey ==
    IF SelectsOpenRouter THEN environ.OPENROUTER_API_KEY ELSE environ.OPENAI_API_KEY

\* C27: check_api_key returns True exactly when the key of the provider
\* named by LLM_PROVIDER (openai when unset, case-insensitive) is set and
\* non-empty: OPENROUTER_API_KEY for openrouter, OPENAI_API_KEY for every
\* other value; the other provider's key never makes it return True.
C27_CheckSelectsKeyByProvider ==
    checked # "notcalled" =>
        (checked = "True" <=> (SelectedKey # Unset /\ SelectedKey # ""))

\* openrouter in mixed case with only the OpenAI key set: False
C27_Witness ==
    /\ checked = "False"
    /\ environ.LLM_PROVIDER = "OpenRouter"
    /\ environ.OPENAI_API_KEY = "sk-1"
    /\ environ.OPENROUTER_API_KEY = Unset

\* C29: whenever check_api_key() returns True, the following
\* get_llm_client() with no arguments under the same environment returns a
\* client, for every value of LLM_PROVIDER.
C29_CheckedThenClient ==
    (checked = "True" /\ client # "notcalled") => client = "client"

-----------------------------------------------------------------------------
(* Properties of POST /api/generate and of an empty generation *)

InHttpGenerate == entry.fn = "http_generate"

SomeCallFailed == \E i \in 1..Len(log) : ~log[i].ok

\* C28: POST /api/generate answers 400 for an unknown generator id without
\* loading a module or calling a generation function; it answers 500 when
\* the generation function returns a falsy value or when load, generation,
\* save or move raises, and never 200 then; for a falsy result no save and
\* no move is made.
C28_NoSuccessAfterFailure ==
    InHttpGenerate =>
        /\ entry.g \notin GENERATORS => (pc = "done" /\ ret = "400" /\ log = <<>>)
        /\ (pc = "done" /\ entry.g \in GENERATORS
                /\ (SomeCallFailed \/ GenerateReturned(FALSE))) => ret = "500"
        /\ ret = "200" => (~SomeCallFailed /\ GenerateReturned(TRUE))
        /\ GenerateReturned(FALSE) =>
                (pc = "done" /\ Calls("save") = <<>> /\ Calls("move") = <<>>)

\* the three cases: unknown id, a falsy result, a move that raised
C28_Witness ==
    /\ InHttpGenerate /\ pc = "done" /\ ret = "500"
    /\ GenerateReturned(FALSE)
    /\ Calls("load") # <<>>

C28_WitnessMoveRaised ==
    /\ InHttpGenerate /\ pc = "done" /\ ret = "500"
    /\ \E i \in 1..Len(log) : log[i].op = "move" /\ ~log[i].ok

\* the completion resolves to an empty item list
EmptyItems == completion = PyStr(Render(PyList(<<>>), "plain"))

\* a result mapping that reports no items
CountsZero(v) ==
    /\ v.t = "dict"
    /\ \E i \in 1..Len(v.pairs) :
            v.pairs[i].k \in {Key.count, Key.num_demographics, Key.num_aphorisms,
                              Key.num_styles}
                /\ v.pairs[i].v = PyInt(0)

\* the entry point went on to persistence after the generation
WentOnToSave == pc = "save_markdown" \/ SaveCalled("markdown")

\* C30: a generation whose resolved item list is empty is a success: the
\* list generators return a truthy mapping with count 0, run_generation and
\* POST /api/generate go on to persist both artifacts for it, and of the
\* values a list generator returns only None suppresses persistence.
C30_EmptyListIsSuccess ==
    \A i \in 1..Len(log) :
        (log[i].op = "generate" /\ log[i].ok) =>
            /\ (entry.g \in GENERATORS /\ EmptyItems) =>
                    (Truthy(log[i].arg) /\ CountsZero(log[i].arg))
            /\ CountsZero(log[i].arg) =>
                    /\ WentOnToSave
                    /\ (pc = "done" /\ ret \in {"True", "200"}) =>
                            (WrittenWhole("markdown") /\ WrittenWhole("json"))
            /\ entry.g \in GENERATORS => (log[i].arg = PyNone <=> ~WentOnToSave)

\* POST /api/generate succeeded on the completion "[]"
C30_Witness ==
    /\ InHttpGenerate /\ pc = "done" /\ ret = "200"
    /\ EmptyItems
    /\ CountsZero(data)
    /\ WrittenWhole("markdown") /\ WrittenWhole("json")

\* run_generation returned True on a result with count 0
C30_WitnessRunGeneration ==
    /\ InRunGeneration /\ pc = "done" /\ ret = "True"
    /\ CountsZero(data)
    /\ WrittenWhole("markdown") /\ WrittenWhole("json")


=============================================================================
